---- MODULE Spec2Model ----
(***************************************************************************)
(* The B-tree verifier of src/btree/bt_vrfy.c as a state machine.          *)
(*                                                                         *)
(* One run of __verify_int is modelled step by step: the preconditions and *)
(* allocations, the recursive depth-first walk of __verify_tree (an        *)
(* explicit stack of frames stands for the C recursion), the free-list     *)
(* pass, the coverage audit loop of __verify_checkfrag, and the teardown.  *)
(* The file, the tree held in memory, the free list, the comparator and    *)
(* the failures the collaborators may return are inputs fixed by Init.     *)
(*                                                                         *)
(* Integers: file sizes are off_t values that exceed what TLC's integers   *)
(* hold, so a file size is kept as two limbs (hi * 2^16 + lo); the 32-bit  *)
(* frags field is kept as its two 16-bit halves, which gives the uint32_t  *)
(* truncation of line 133 its real width.                                  *)
(***************************************************************************)
EXTENDS Integers, Sequences, FiniteSets, TLC

(***************************************************************************)
(* Bounds of the model.                                                    *)
(***************************************************************************)
MaxFrags == 4
MaxKey == 3
MaxRecs == 2
MaxIns == 2
MaxCalls == 13
MaxFirsts == 2

(***************************************************************************)
(* Program constants.                                                      *)
(***************************************************************************)
WT_BTREE_DESC_SECTOR == 512
INT_MAX == 2147483647
WT_ADDR_INVALID == -1

OK == "0"
WT_ERROR == "WT_ERROR"
ENOMEM == "ENOMEM"
EIO == "EIO"

NULL == 0
EmptyKey == 0

AllocSizes == {512, 1024}

(***************************************************************************)
(* Two-limb naturals: <<hi, lo>> stands for hi * Limb + lo, 0 <= lo < Limb.*)
(***************************************************************************)
Limb == 2 ^ 16

Big(hi, lo) == [hi |-> hi, lo |-> lo]

BigOf(n) == Big(n \div Limb, n % Limb)

\* n <= b, for an integer n and a two-limb b.
IntLeBig(n, b) == b.hi > n \div Limb \/ (b.hi = n \div Limb /\ n % Limb <= b.lo)

\* b <= n, for a two-limb b and an integer n.
BigLeInt(b, n) == b.hi < n \div Limb \/ (b.hi = n \div Limb /\ b.lo <= n % Limb)

\* b - n for a small integer n <= b (one borrow at most).
BigSub(b, n) ==
    IF b.lo >= n THEN Big(b.hi, b.lo - n) ELSE Big(b.hi - 1, b.lo + Limb - n)

\* b % a and b / a for a power of two a that divides Limb.
BigMod(b, a) == b.lo % a

BigDiv(b, a) == Big(b.hi \div a, (b.hi % a) * (Limb \div a) + b.lo \div a)

\* The low 32 bits of b, as the two halves of a uint32_t.
U32(b) == Big(b.hi % Limb, b.lo)

\* A uint32_t compared with INT_MAX (line 134: the int is converted to unsigned).
U32GtIntMax(u) == u.hi > INT_MAX \div Limb

U32Val(u) == u.hi * Limb + u.lo

(***************************************************************************)
(* Address arithmetic of the file: an address counts allocation units from *)
(* the end of the descriptor sector.                                       *)
(***************************************************************************)
WT_OFF_TO_ADDR(asz, off) == U32(BigDiv(BigSub(off, WT_BTREE_DESC_SECTOR), asz))

WT_ADDR_TO_OFF(asz, addr) == WT_BTREE_DESC_SECTOR + addr * asz

(***************************************************************************)
(* The bit string package, on a map kept as the set of its set bits.       *)
(***************************************************************************)
bit_test(bits, i) == i \in bits

bit_set(bits, i) == bits \cup {i}

bit_nset(bits, start, stop) == bits \cup (start .. stop)

\* bit_ffc: the first clear bit of 0..nbits-1, or -1.
bit_ffc(bits, nbits) ==
    IF \E i \in 0 .. nbits - 1 : i \notin bits
    THEN CHOOSE i \in 0 .. nbits - 1 :
             i \notin bits /\ \A j \in 0 .. i - 1 : j \in bits
    ELSE -1

(***************************************************************************)
(* __verify_addfrag: the result and the map it leaves.                     *)
(***************************************************************************)
AddfragCount(asz, size) == size \div asz

\* Mutant: only the first bit of the range is tested.
AddfragSeen_first(bits, addr, k) == k > 0 /\ bit_test(bits, addr)

AddfragSeen(bits, addr, k) == \E i \in 0 .. k - 1 : bit_test(bits, addr + i)

__verify_addfrag(bits, asz, addr, size) ==
    LET k == AddfragCount(asz, size) IN
    IF AddfragSeen(bits, addr, k)
    THEN [ret |-> WT_ERROR, bits |-> bits]
    ELSE [ret |-> OK,
          bits |-> IF k > 0 THEN bit_nset(bits, addr, addr + (k - 1)) ELSE bits]

(***************************************************************************)
(* State.                                                                  *)
(*   file_size, allocsize, tree, freelist, compare: the btree handle: the  *)
(*     size of its file, its allocation size, the pages of the tree by     *)
(*     page id (the root is page 1), the free list, btree_compare.         *)
(*   bad_chunk: the file addresses whose on-disk chunk header is malformed.*)
(*   fault_env: the transient failures the collaborators may return.       *)
(*   vs: the WT_VSTUFF of the run.   ret: __verify_int's ret.              *)
(*   pc, stack: where the run is; a frame per active __verify_tree call.   *)
(*   fl, cf: the locals of __verify_freelist and of __verify_checkfrag;    *)
(*     cf.entry_bits keeps the frag-map as it was when the audit began.    *)
(*   cache: the ids of the pages held in memory.                           *)
(*   trace: the calls made and the diagnostics emitted so far.             *)
(*   stats: the WT_BTREE_STATS of the handle.   sw: where the statistics   *)
(*     walk is, and what __stat_init returned.                             *)
(***************************************************************************)
VARIABLES file_size, allocsize, tree, freelist, compare, bad_chunk, fault_env,
          vs, ret, pc, stack, fl, cf, cache, trace, stats, sw, cst

vars == <<file_size, allocsize, tree, freelist, compare, bad_chunk, fault_env,
          vs, ret, pc, stack, fl, cf, cache, trace, stats, sw, cst>>

statvars == <<stats, sw, cst>>

inputs == <<file_size, allocsize, tree, freelist, compare, bad_chunk, fault_env>>

\* An event: a call with its arguments and result, or a diagnostic (errx)
\* with the numbers its message carries.
Ev(op, what, a, b, r) ==
    [op |-> op, what |-> what, a |-> a, b |-> b, c |-> 0, ret |-> r]

Errx(what, a, b) == Ev("errx", what, a, b, OK)

Errx3(what, a, b, c) == [Errx(what, a, b) EXCEPT !.c = c]

(***************************************************************************)
(* Pages.  A page carries the address and size of the reference that leads *)
(* to it (WT_PADDR).  slots: the cells of a column-store variable-length   *)
(* leaf, NULL or the cell's rle.  keys: the keys of a row-store leaf.      *)
(* refs: the child references of an internal page, each with the child's   *)
(* page id, its starting recno (column store) and its key (row store).     *)
(* cells: the overflow cells of the disk image; dsk: the image is kept.    *)
(***************************************************************************)
\* The in-memory changes of a leaf: ins, the insert list of each slot, an
\* entry being TRUE when its update is a deletion; smallest, the insert list
\* before the first slot of a row leaf; upd, the head of the update chain of
\* each slot of a row leaf ("none", "live" or "deleted").  A page read from
\* disk has none.
Page(type, addr, size, recno, entries, slots, keys, refs, cells, dsk) ==
    [type |-> type, addr |-> addr, size |-> size, recno |-> recno,
     entries |-> entries, slots |-> slots, keys |-> keys, refs |-> refs,
     cells |-> cells, dsk |-> dsk, ins |-> <<>>, smallest |-> <<>>,
     upd |-> <<>>]

Ref(page, recno, key) == [page |-> page, recno |-> recno, key |-> key]

Cell(addr, size) == [addr |-> addr, size |-> size]

ColTypes == {"WT_PAGE_COL_INT", "WT_PAGE_COL_FIX", "WT_PAGE_COL_VAR"}

WT_PADDR(page) == page.addr

\* btree_compare: negative, zero or positive.  "lexical" is the default
\* byte order, under which the empty key sorts first; "reverse" is an
\* application comparator with the opposite order.
btree_compare(cmp, a, b) ==
    IF a = b THEN 0
    ELSE IF cmp = "lexical" THEN (IF a < b THEN -1 ELSE 1)
    ELSE (IF a < b THEN 1 ELSE -1)

(***************************************************************************)
(* __verify_row_int_key_order: the key of an internal page's entry against *)
(* the largest key seen.  Yields the result, the monitor and the events.   *)
(***************************************************************************)
RowIntOutOfOrder(cmp, key, max_key) == btree_compare(cmp, key, max_key) <= 0

\* The event of a key-order call: the page, the key looked at, the result,
\* and whether the key was compared with the largest key.
KeyEv(op, what, page, entry, key, r) ==
    [Ev(op, what, WT_PADDR(page), entry, r) EXCEPT !.c = key]

__verify_row_int_key_order(page, rref, entry, v, cmp, fault) ==
    IF RowIntOutOfOrder(cmp, rref.key, v.max_key)
    THEN [ret |-> WT_ERROR, max_key |-> v.max_key, max_addr |-> v.max_addr,
          ev |-> <<KeyEv("row_int_key_order", "compared", page, entry,
                         rref.key,
                         WT_ERROR),
                   Errx("internal key sorts before", entry, WT_PADDR(page))>>]
    ELSE IF fault = "buf_set"
    THEN [ret |-> ENOMEM, max_key |-> v.max_key, max_addr |-> v.max_addr,
          ev |-> <<KeyEv("row_int_key_order", "compared", page, entry,
                         rref.key,
                         ENOMEM)>>]
    ELSE [ret |-> OK, max_key |-> rref.key, max_addr |-> WT_PADDR(page),
          ev |-> <<KeyEv("row_int_key_order", "compared", page, entry,
                         rref.key,
                         OK)>>]

(***************************************************************************)
(* __verify_row_leaf_key_order: the first key of a leaf against the        *)
(* largest key seen, then the largest key becomes the leaf's last key.     *)
(***************************************************************************)
RowLeafCompares_set(max_addr) == max_addr # WT_ADDR_INVALID

RowLeafCompares(max_addr) == max_addr = WT_ADDR_INVALID

RowLeafOutOfOrder(cmp, key, max_key) == btree_compare(cmp, key, max_key) < 0

RowLeafLastKey(page) == page.keys[page.entries]

__verify_row_leaf_key_order(page, v, cmp, fault) ==
    LET what == IF RowLeafCompares(v.max_addr) THEN "compared" ELSE "skipped"
        ev(r) == KeyEv("row_leaf_key_order", what, page, 0, page.keys[1], r)
    IN
    IF RowLeafCompares(v.max_addr) /\ fault \in {"key_scr_alloc", "row_key"}
    THEN [ret |-> IF fault = "key_scr_alloc" THEN ENOMEM ELSE WT_ERROR,
          max_key |-> v.max_key, max_addr |-> v.max_addr,
          ev |-> <<KeyEv("row_leaf_key_order", "skipped", page, 0,
                         page.keys[1],
                         IF fault = "key_scr_alloc" THEN ENOMEM
                         ELSE WT_ERROR)>>]
    ELSE IF RowLeafCompares(v.max_addr)
            /\ RowLeafOutOfOrder(cmp, page.keys[1], v.max_key)
    THEN [ret |-> WT_ERROR, max_key |-> v.max_key, max_addr |-> v.max_addr,
          ev |-> <<ev(WT_ERROR),
                   Errx("first key sorts equal or less",
                        WT_PADDR(page), v.max_addr)>>]
    ELSE IF fault = "row_key_last"
    THEN [ret |-> WT_ERROR, max_key |-> v.max_key,
          max_addr |-> WT_PADDR(page), ev |-> <<ev(WT_ERROR)>>]
    ELSE [ret |-> OK, max_key |-> RowLeafLastKey(page),
          max_addr |-> WT_PADDR(page), ev |-> <<ev(OK)>>]

(***************************************************************************)
(* __verify_overflow: read an overflow page, check its chunk, charge its   *)
(* fragments.  The check of the chunk refuses a malformed image and a      *)
(* chunk that does not lie in the body of the file.                        *)
(***************************************************************************)
\* Mutant: a chunk that ends where the file ends is refused as well.
ChunkOutOfBody_ge(fsize, asz, addr, size) ==
    ~IntLeBig(WT_ADDR_TO_OFF(asz, addr) + size + 1, fsize)

ChunkOutOfBody(fsize, asz, addr, size) ==
    ~IntLeBig(WT_ADDR_TO_OFF(asz, addr) + size, fsize)

\* Mutant: every chunk passes the check.
ChunkFails_never(fsize, asz, bad, addr, size) == FALSE

ChunkFails(fsize, asz, bad, addr, size) ==
    addr \in bad \/ ChunkOutOfBody(fsize, asz, addr, size)

__verify_overflow(bits, fsize, asz, bad, addr, size, fault) ==
    IF fault = "ovfl_scr_alloc"
    THEN [ret |-> ENOMEM, bits |-> bits,
          ev |-> <<Ev("scr_alloc", "tmp", size, 0, ENOMEM)>>]
    ELSE IF fault = "disk_read"
    THEN [ret |-> EIO, bits |-> bits,
          ev |-> <<Ev("scr_alloc", "tmp", size, 0, OK),
                   Ev("disk_read", "", addr, size, EIO),
                   Ev("scr_release", "tmp", 0, 0, OK)>>]
    ELSE IF ChunkFails(fsize, asz, bad, addr, size)
    THEN [ret |-> WT_ERROR, bits |-> bits,
          ev |-> <<Ev("scr_alloc", "tmp", size, 0, OK),
                   Ev("disk_read", "", addr, size, OK),
                   Ev("verify_dsk_chunk", "", addr, size, WT_ERROR),
                   Ev("scr_release", "tmp", 0, 0, OK)>>]
    ELSE LET r == __verify_addfrag(bits, asz, addr, size) IN
         [ret |-> r.ret, bits |-> r.bits,
          ev |-> <<Ev("scr_alloc", "tmp", size, 0, OK),
                   Ev("disk_read", "", addr, size, OK),
                   Ev("verify_dsk_chunk", "", addr, size, OK),
                   Ev("addfrag", "overflow", addr, size, r.ret)>>
                 \o (IF r.ret = OK THEN <<>>
                     ELSE <<Errx("already verified", addr, 0)>>)
                 \o <<Ev("scr_release", "tmp", 0, 0, OK)>>]

(***************************************************************************)
(* __verify_overflow_cell: the overflow cells of a page, in order, until   *)
(* one fails.  The fault, if any, strikes the first overflow cell.         *)
(***************************************************************************)
RECURSIVE OverflowCells(_, _, _, _, _, _, _)
OverflowCells(cells, j, bits, fsize, asz, bad, fault) ==
    IF j > Len(cells)
    THEN [ret |-> OK, bits |-> bits, ev |-> <<>>]
    ELSE LET r == __verify_overflow(bits, fsize, asz, bad,
                                    cells[j].addr, cells[j].size,
                                    IF j = 1 THEN fault ELSE "none") IN
         IF r.ret # OK THEN r
         ELSE LET rest == OverflowCells(cells, j + 1, r.bits, fsize, asz,
                                        bad, fault) IN
              [ret |-> rest.ret, bits |-> rest.bits, ev |-> r.ev \o rest.ev]

__verify_overflow_cell(page, bits, fsize, asz, bad, fault) ==
    IF ~page.dsk
    THEN [ret |-> OK, bits |-> bits, ev |-> <<>>]
    ELSE OverflowCells(page.cells, 1, bits, fsize, asz, bad, fault)

(***************************************************************************)
(* The steps of a run.                                                     *)
(***************************************************************************)
FaultChoice(S) == {"none"} \cup (fault_env \cap S)

Frame(page, parent_recno) ==
    [page |-> page, parent_recno |-> parent_recno, st |-> "enter", i |-> 0,
     ret |-> OK]

Top == stack[Len(stack)]

SetTop(f) == [stack EXCEPT ![Len(stack)] = f]

Return(f, r) == [f EXCEPT !.st = "ret", !.ret = r]

\* The err label of __verify_int: a zero ret becomes WT_ERROR.
ErrLabel(r) == IF r = OK THEN WT_ERROR ELSE r

\* Mutant: the later result replaces the earlier one.
WT_TRET_last(r, a) == a

\* WT_TRET: keep the first non-zero result.
WT_TRET(r, a) == IF a # OK /\ r = OK THEN a ELSE r

\* Mutant: a file of exactly the descriptor sector passes the first check.
FileHasNoData_lt(fsize) == BigLeInt(fsize, WT_BTREE_DESC_SECTOR - 1)

FileHasNoData(fsize) == BigLeInt(fsize, WT_BTREE_DESC_SECTOR)

FileSizeInvalid(fsize, asz) ==
    BigMod(BigSub(fsize, WT_BTREE_DESC_SECTOR), asz) # 0

FileTooLarge(fr) == U32GtIntMax(fr)

(***************************************************************************)
(* __verify_int, lines 87-139: the scratch buffer for the largest key, the *)
(* checks of the file size, the frag-map.                                  *)
(***************************************************************************)
\* Mutant: the structure keeps what the memory held.
WT_CLEAR_kept(v) == v

\* WT_CLEAR(_vstuff), line 90: every field of the structure is zero.
WT_CLEAR(v) ==
    [frags |-> Big(0, 0), fragbits |-> {}, record_total |-> 0,
     max_key |-> EmptyKey, max_addr |-> 0, fcnt |-> 0, held |-> {}]

VerifyStart ==
    /\ pc = "start"
    /\ sw.pc # "walk"
    /\ \E fault \in FaultChoice({"scr_alloc", "bit_alloc"}) :
         LET fr == WT_OFF_TO_ADDR(allocsize, file_size)
             v1 == [WT_CLEAR(vs) EXCEPT !.max_key = EmptyKey,
                              !.held = {"max_key"},
                              !.max_addr = WT_ADDR_INVALID]
             e1 == <<Ev("scr_alloc", "max_key", 0, 0, OK)>>
         IN
         IF fault = "scr_alloc"
         THEN /\ vs' = WT_CLEAR(vs)
              /\ ret' = ENOMEM
              /\ pc' = "teardown"
              /\ stack' = <<>>
              /\ trace' = trace \o <<Ev("scr_alloc", "max_key", 0, 0, ENOMEM)>>
         ELSE IF FileHasNoData(file_size)
         THEN /\ vs' = v1
              /\ ret' = ErrLabel(OK)
              /\ pc' = "teardown"
              /\ stack' = <<>>
              /\ trace' = trace \o e1 \o <<Errx("no data pages", 0, 0)>>
         ELSE IF FileSizeInvalid(file_size, allocsize)
         THEN /\ vs' = v1
              /\ ret' = ErrLabel(OK)
              /\ pc' = "teardown"
              /\ stack' = <<>>
              /\ trace' = trace \o e1 \o <<Errx("file size not valid", 0, 0)>>
         ELSE IF FileTooLarge(fr)
         THEN /\ vs' = [v1 EXCEPT !.frags = fr]
              /\ ret' = ErrLabel(OK)
              /\ pc' = "teardown"
              /\ stack' = <<>>
              /\ trace' = trace \o e1 \o <<Errx("too large to verify", 0, 0)>>
         ELSE IF fault = "bit_alloc"
         THEN /\ vs' = [v1 EXCEPT !.frags = fr]
              /\ ret' = ENOMEM
              /\ pc' = "teardown"
              /\ stack' = <<>>
              /\ trace' = trace \o e1
                            \o <<Ev("bit_alloc", "", U32Val(fr), 0, ENOMEM)>>
         ELSE /\ vs' = [v1 EXCEPT !.frags = fr, !.fragbits = {},
                                  !.held = {"max_key", "fragbits"}]
              /\ ret' = OK
              /\ pc' = "tree"
              /\ stack' = <<Frame(1, 1)>>
              /\ trace' = trace \o e1
                            \o <<Ev("bit_alloc", "", U32Val(fr), 0, OK)>>
    /\ UNCHANGED <<inputs, statvars, fl, cf, cache>>

(***************************************************************************)
(* __verify_tree, lines 194-305: what is done to a page on entry, before   *)
(* its children are looked at.                                             *)
(***************************************************************************)
RecnoMismatch(parent_recno, recno) == parent_recno # recno

RECURSIVE ColVarRecords(_, _)
ColVarRecords(slots, j) ==
    IF j > Len(slots) THEN 0
    ELSE (IF slots[j] = NULL THEN 1 ELSE slots[j]) + ColVarRecords(slots, j + 1)

\* Mutant: a col-var page counts its slots, not their repeat counts.
PageRecords_entries(page) ==
    IF page.type \in {"WT_PAGE_COL_FIX", "WT_PAGE_COL_VAR"} THEN page.entries
    ELSE 0

\* The records a page adds to record_total (lines 266-281).
PageRecords(page) ==
    IF page.type = "WT_PAGE_COL_FIX" THEN page.entries
    ELSE IF page.type = "WT_PAGE_COL_VAR" THEN ColVarRecords(page.slots, 1)
    ELSE 0

ChecksOverflow(type) ==
    type \in {"WT_PAGE_COL_VAR", "WT_PAGE_ROW_INT", "WT_PAGE_ROW_LEAF"}

Descends(type) == type \in {"WT_PAGE_COL_INT", "WT_PAGE_ROW_INT"}

TreeVisit ==
    /\ pc = "tree"
    /\ Top.st = "enter"
    /\ \E fault \in FaultChoice({"key_scr_alloc", "row_key", "row_key_last",
                                 "ovfl_scr_alloc", "disk_read"}) :
         LET f == Top
             page == tree[f.page]
             fcnt == vs.fcnt + 1
             e0 == IF fcnt % 10 = 0
                   THEN <<Ev("progress", "", fcnt, 0, OK)>> ELSE <<>>
             a == __verify_addfrag(vs.fragbits, allocsize, page.addr, page.size)
             e1 == e0 \o <<Ev("addfrag", "page", page.addr, page.size, a.ret)>>
             v1 == [vs EXCEPT !.fcnt = fcnt, !.fragbits = a.bits]
             v2 == [v1 EXCEPT !.record_total = @ + PageRecords(page)]
             k == IF page.type = "WT_PAGE_ROW_LEAF"
                  THEN __verify_row_leaf_key_order(page, v2, compare, fault)
                  ELSE [ret |-> OK, max_key |-> v2.max_key,
                        max_addr |-> v2.max_addr, ev |-> <<>>]
             v3 == [v2 EXCEPT !.max_key = k.max_key, !.max_addr = k.max_addr]
             o == IF ChecksOverflow(page.type)
                  THEN __verify_overflow_cell(page, v3.fragbits, file_size,
                                              allocsize, bad_chunk, fault)
                  ELSE [ret |-> OK, bits |-> v3.fragbits, ev |-> <<>>]
             v4 == [v3 EXCEPT !.fragbits = o.bits]
         IN
         IF a.ret # OK
         THEN /\ vs' = v1
              /\ stack' = SetTop(Return(f, a.ret))
              /\ trace' = trace \o e1
                            \o <<Errx("already verified", page.addr, 0)>>
         ELSE IF page.type \in ColTypes
                 /\ RecnoMismatch(f.parent_recno, page.recno)
         THEN /\ vs' = v1
              /\ stack' = SetTop(Return(f, WT_ERROR))
              /\ trace' = trace \o e1
                            \o <<Errx3("starting record", WT_PADDR(page),
                                       page.recno, f.parent_recno)>>
         ELSE IF k.ret # OK
         THEN /\ vs' = v3
              /\ stack' = SetTop(Return(f, k.ret))
              /\ trace' = trace \o e1 \o k.ev
         ELSE IF o.ret # OK
         THEN /\ vs' = v4
              /\ stack' = SetTop(Return(f, o.ret))
              /\ trace' = trace \o e1 \o k.ev \o o.ev
         ELSE /\ vs' = v4
              /\ stack' = SetTop(IF Descends(page.type) /\ Len(page.refs) > 0
                                 THEN [f EXCEPT !.st = "loop", !.i = 1]
                                 ELSE Return(f, OK))
              /\ trace' = trace \o e1 \o k.ev \o o.ev
    /\ UNCHANGED <<inputs, statvars, ret, pc, fl, cf, cache>>

(***************************************************************************)
(* __verify_tree, lines 311-329 and 340-356: the check of a child's        *)
(* reference, then the child is brought into memory and walked.            *)
(***************************************************************************)
ColRefMismatch_total(recno, record_total) == recno # record_total

ColRefMismatch(recno, record_total) == recno # record_total + 1

\* Mutant: the key of entry 0 is checked as well.
RowRefChecked_all(entry) == TRUE

\* Line 349: the 0th key of an internal page is not tested.
RowRefChecked(entry) == entry # 0

TreeChild ==
    /\ pc = "tree"
    /\ Top.st = "loop"
    /\ \E fault \in FaultChoice({"buf_set", "page_in"}) :
         LET f == Top
             page == tree[f.page]
             ref == page.refs[f.i]
             entry == f.i - 1
             k == IF page.type = "WT_PAGE_ROW_INT" /\ RowRefChecked(entry)
                  THEN __verify_row_int_key_order(page, ref, entry, vs,
                                                  compare, fault)
                  ELSE [ret |-> OK, max_key |-> vs.max_key,
                        max_addr |-> vs.max_addr, ev |-> <<>>]
             v1 == [vs EXCEPT !.max_key = k.max_key, !.max_addr = k.max_addr]
         IN
         IF page.type = "WT_PAGE_COL_INT"
            /\ ColRefMismatch(ref.recno, vs.record_total)
         THEN /\ vs' = vs
              /\ stack' = SetTop(Return(f, WT_ERROR))
              /\ cache' = cache
              /\ trace' = trace
                    \o <<Errx3("starting record", tree[ref.page].addr,
                               ref.recno, vs.record_total + 1)>>
         ELSE IF k.ret # OK
         THEN /\ vs' = v1
              /\ stack' = SetTop(Return(f, k.ret))
              /\ cache' = cache
              /\ trace' = trace \o k.ev
         ELSE IF fault = "page_in"
         THEN /\ vs' = v1
              /\ stack' = SetTop(Return(f, EIO))
              /\ cache' = cache
              /\ trace' = trace \o k.ev
                            \o <<Ev("page_in", "", ref.page, f.page, EIO)>>
         ELSE /\ vs' = v1
              /\ stack' = Append(stack,
                                 Frame(ref.page,
                                       IF page.type = "WT_PAGE_COL_INT"
                                       THEN ref.recno ELSE 0))
              /\ cache' = cache \cup {ref.page}
              /\ trace' = trace \o k.ev
                            \o <<Ev("page_in", "", ref.page, f.page, OK)>>
    /\ UNCHANGED <<inputs, statvars, ret, pc, fl, cf>>

(***************************************************************************)
(* __verify_tree, lines 330-334 and 357-361: a child's walk has returned:  *)
(* its hazard is cleared, the child is evicted, and the loop goes on or    *)
(* the parent returns the error.                                           *)
(***************************************************************************)
\* Mutant: the error of the child's walk is returned at once, the child
\* is neither released nor evicted.
TreeReturn_leak ==
    /\ pc = "tree"
    /\ Len(stack) > 1
    /\ Top.st = "ret"
    /\ \E fault \in FaultChoice({"reconcile"}) :
         LET child == Top
             f == stack[Len(stack) - 1]
             page == tree[f.page]
             rec == IF fault = "reconcile" THEN EIO ELSE OK
             r == WT_TRET(child.ret, rec)
             rest == SubSeq(stack, 1, Len(stack) - 2)
         IN
         IF child.ret # OK
         THEN /\ stack' = rest \o <<Return(f, child.ret)>>
              /\ cache' = cache
              /\ trace' = trace
         ELSE /\ stack' = rest \o
                    <<IF r # OK THEN Return(f, r)
                      ELSE IF f.i + 1 > Len(page.refs) THEN Return(f, OK)
                      ELSE [f EXCEPT !.i = @ + 1]>>
              /\ cache' = IF rec = OK THEN cache \ {child.page} ELSE cache
              /\ trace' = trace \o <<Ev("hazard_clear", "", child.page, 0, OK),
                                     Ev("reconcile", "", child.page, 0, rec)>>
    /\ UNCHANGED <<inputs, statvars, vs, ret, pc, fl, cf>>

TreeReturn ==
    /\ pc = "tree"
    /\ Len(stack) > 1
    /\ Top.st = "ret"
    /\ \E fault \in FaultChoice({"reconcile"}) :
         LET child == Top
             f == stack[Len(stack) - 1]
             page == tree[f.page]
             rec == IF fault = "reconcile" THEN EIO ELSE OK
             r == WT_TRET(child.ret, rec)
             rest == SubSeq(stack, 1, Len(stack) - 2)
         IN
         /\ stack' = rest \o
               <<IF r # OK THEN Return(f, r)
                 ELSE IF f.i + 1 > Len(page.refs) THEN Return(f, OK)
                 ELSE [f EXCEPT !.i = @ + 1]>>
         /\ cache' = IF rec = OK THEN cache \ {child.page} ELSE cache
         /\ trace' = trace \o <<Ev("hazard_clear", "", child.page, 0, OK),
                                Ev("reconcile", "", child.page, 0, rec)>>
    /\ UNCHANGED <<inputs, statvars, vs, ret, pc, fl, cf>>

(***************************************************************************)
(* __verify_int, line 141: the walk of the root has returned.              *)
(***************************************************************************)
TreeDone ==
    /\ pc = "tree"
    /\ Len(stack) = 1
    /\ Top.st = "ret"
    /\ stack' = <<>>
    /\ ret' = Top.ret
    /\ pc' = IF Top.ret # OK THEN "teardown" ELSE "freelist"
    /\ fl' = [i |-> 1, ret |-> OK]
    /\ UNCHANGED <<inputs, statvars, vs, cf, cache, trace>>

(***************************************************************************)
(* __verify_freelist, lines 559-569: one entry of the free list.           *)
(***************************************************************************)
\* Mutant: an entry that ends where the file ends is refused as well.
FreeEntryPastEnd_ge(fsize, asz, fe) ==
    ~IntLeBig(WT_ADDR_TO_OFF(asz, fe.addr) + fe.size + 1, fsize)

FreeEntryPastEnd(fsize, asz, fe) ==
    ~IntLeBig(WT_ADDR_TO_OFF(asz, fe.addr) + fe.size, fsize)

FreelistStep ==
    /\ pc = "freelist"
    /\ fl.i <= Len(freelist)
    /\ LET fe == freelist[fl.i]
           a == __verify_addfrag(vs.fragbits, allocsize, fe.addr, fe.size)
       IN
       IF FreeEntryPastEnd(file_size, allocsize, fe)
       THEN /\ vs' = vs
            /\ fl' = fl
            /\ ret' = WT_ERROR
            /\ pc' = "teardown"
            /\ trace' = trace \o <<Errx("free-list entry references "
                                        \o "non-existent file pages",
                                        fe.addr, 0)>>
       ELSE /\ vs' = [vs EXCEPT !.fragbits = a.bits]
            /\ fl' = [i |-> fl.i + 1, ret |-> WT_TRET(fl.ret, a.ret)]
            /\ ret' = ret
            /\ pc' = pc
            /\ trace' = trace
                  \o <<Ev("addfrag", "free", fe.addr, fe.size, a.ret)>>
                  \o (IF a.ret = OK THEN <<>>
                      ELSE <<Errx("already verified", fe.addr, 0)>>)
    /\ UNCHANGED <<inputs, statvars, stack, cf, cache>>

\* Lines 571 and 144: the list is exhausted, the result goes to __verify_int.
FreelistDone ==
    /\ pc = "freelist"
    /\ fl.i > Len(freelist)
    /\ ret' = fl.ret
    /\ pc' = IF fl.ret # OK THEN "teardown" ELSE "checkfrag"
    /\ cf' = [ffc_start |-> -1, ffc_end |-> -1, ret |-> OK,
              entry_bits |-> vs.fragbits]
    /\ UNCHANGED <<inputs, statvars, vs, stack, fl, cache, trace>>

(***************************************************************************)
(* __verify_checkfrag, lines 614-641: one turn of the loop; the turn that  *)
(* finds no clear bit ends it and returns to __verify_int (line 147).      *)
(***************************************************************************)
\* Mutant: the test for a bit that extends the run is off by two.
CheckfragExtends_off(ffc_end, ffc) == ffc_end = ffc + 1

CheckfragExtends(ffc_end, ffc) == ffc_end = ffc - 1

CheckfragReport(c) ==
    IF c.ffc_start = c.ffc_end
    THEN Errx("fragment never verified", c.ffc_start, c.ffc_start)
    ELSE Errx("fragments never verified", c.ffc_start, c.ffc_end)

CheckfragStep ==
    /\ pc = "checkfrag"
    /\ LET ffc == bit_ffc(vs.fragbits, U32Val(vs.frags))
           bits == IF ffc # -1 THEN bit_set(vs.fragbits, ffc) ELSE vs.fragbits
       IN
       /\ vs' = [vs EXCEPT !.fragbits = bits]
       /\ IF ffc # -1 /\ cf.ffc_start = -1
          THEN /\ cf' = [cf EXCEPT !.ffc_start = ffc, !.ffc_end = ffc]
               /\ UNCHANGED <<ret, pc, trace>>
          ELSE IF ffc # -1 /\ CheckfragExtends(cf.ffc_end, ffc)
          THEN /\ cf' = [cf EXCEPT !.ffc_end = ffc]
               /\ UNCHANGED <<ret, pc, trace>>
          ELSE /\ cf' = [cf EXCEPT !.ffc_start = ffc, !.ffc_end = ffc,
                                    !.ret = IF cf.ffc_start # -1
                                            THEN WT_ERROR ELSE @]
               /\ trace' = trace \o (IF cf.ffc_start # -1
                                     THEN <<CheckfragReport(cf)>> ELSE <<>>)
               /\ IF ffc = -1
                  THEN /\ ret' = cf'.ret
                       /\ pc' = "teardown"
                  ELSE UNCHANGED <<ret, pc>>
    /\ UNCHANGED <<inputs, statvars, stack, fl, cache>>

(***************************************************************************)
(* __verify_int, lines 154-170: the root page is discarded, the frag-map   *)
(* and the buffer of the largest key are released, the result is returned. *)
(***************************************************************************)
\* Mutant: the root page is left in memory.
RootInMemory_never(c) == FALSE

RootInMemory(c) == 1 \in c

Teardown ==
    /\ pc = "teardown"
    /\ \E fault \in FaultChoice({"reconcile"}) :
         LET rec == IF fault = "reconcile" THEN EIO ELSE OK
             e1 == IF RootInMemory(cache)
                   THEN <<Ev("reconcile", "root", 1, 0, rec)>> ELSE <<>>
             e2 == <<Ev("progress", "", vs.fcnt, 0, OK)>>
             e3 == IF "fragbits" \in vs.held
                   THEN <<Ev("free", "fragbits", 0, 0, OK)>> ELSE <<>>
             e4 == IF "max_key" \in vs.held
                   THEN <<Ev("scr_release", "max_key", 0, 0, OK)>> ELSE <<>>
         IN
         /\ ret' = IF RootInMemory(cache) THEN WT_TRET(ret, rec) ELSE ret
         /\ cache' = IF RootInMemory(cache) /\ rec = OK
                     THEN cache \ {1} ELSE cache
         /\ vs' = [vs EXCEPT !.held = {}]
         /\ trace' = trace \o e1 \o e2 \o e3 \o e4
    /\ pc' = "done"
    /\ UNCHANGED <<inputs, statvars, stack, fl, cf>>

Next ==
    \/ VerifyStart
    \/ TreeVisit
    \/ TreeChild
    \/ TreeReturn
    \/ TreeDone
    \/ FreelistStep
    \/ FreelistDone
    \/ CheckfragStep
    \/ Teardown

(***************************************************************************)
(* The statistics of a btree handle (bt_stat.c).  The counters are 64 bits *)
(* wide; the model keeps each as the integer it is the residue of.         *)
(***************************************************************************)
NoStats ==
    [file_allocsize |-> 0, file_freelist_entries |-> 0,
     file_col_fix |-> 0, file_col_internal |-> 0, file_col_variable |-> 0,
     file_overflow |-> 0, file_row_internal |-> 0, file_row_leaf |-> 0,
     file_item_total_data |-> 0, file_item_total_key |-> 0,
     file_item_col_deleted |-> 0]

WT_STAT_SET(st, fld, v) == [st EXCEPT ![fld] = v]

WT_STAT_INCRV(st, fld, v) == [st EXCEPT ![fld] = @ + v]

WT_STAT_INCR(st, fld) == WT_STAT_INCRV(st, fld, 1)

WT_STAT_DECR(st, fld) == WT_STAT_INCRV(st, fld, -1)

\* The insert list of slot i of a page, and the update of slot i of a row
\* leaf: none where the page has no such array.
WT_COL_INSERT(page, i) == IF i \in DOMAIN page.ins THEN page.ins[i] ELSE <<>>

WT_ROW_INSERT(page, i) == IF i \in DOMAIN page.ins THEN page.ins[i] ELSE <<>>

WT_ROW_UPDATE(page, i) == IF i \in DOMAIN page.upd THEN page.upd[i] ELSE "none"

(***************************************************************************)
(* __stat_page_col_fix, lines 138-147.                                     *)
(***************************************************************************)
__stat_page_col_fix(st, page) ==
    WT_STAT_INCRV(st, "file_item_total_data", page.entries)

(***************************************************************************)
(* __stat_page_col_var, lines 153-207: each slot of the page, then each    *)
(* entry of the slot's insert list.                                        *)
(***************************************************************************)
\* Mutant: a deletion of a live slot is counted but the data count is kept.
ColVarInsert_nodecr(st, upd_deleted, orig_deleted) ==
    IF upd_deleted /\ ~orig_deleted
    THEN WT_STAT_INCR(st, "file_item_col_deleted")
    ELSE IF ~upd_deleted /\ orig_deleted
    THEN WT_STAT_INCR(WT_STAT_DECR(st, "file_item_col_deleted"),
                      "file_item_total_data")
    ELSE st

\* Mutant: an entry over a slot without a cell adds to the data count and
\* leaves the deletion count.
ColVarInsert_norevive(st, upd_deleted, orig_deleted) ==
    IF upd_deleted
    THEN IF orig_deleted THEN st
         ELSE WT_STAT_DECR(WT_STAT_INCR(st, "file_item_col_deleted"),
                           "file_item_total_data")
    ELSE IF ~orig_deleted THEN st
         ELSE WT_STAT_INCR(st, "file_item_total_data")

\* Lines 185-199: what one entry of an insert list does to the counters.
ColVarInsert(st, upd_deleted, orig_deleted) ==
    IF upd_deleted
    THEN IF orig_deleted THEN st
         ELSE WT_STAT_DECR(WT_STAT_INCR(st, "file_item_col_deleted"),
                           "file_item_total_data")
    ELSE IF ~orig_deleted THEN st
         ELSE WT_STAT_INCR(WT_STAT_DECR(st, "file_item_col_deleted"),
                           "file_item_total_data")

RECURSIVE ColVarInserts(_, _, _, _)
ColVarInserts(st, ins, j, orig_deleted) ==
    IF j > Len(ins) THEN st
    ELSE ColVarInserts(ColVarInsert(st, ins[j], orig_deleted), ins, j + 1,
                       orig_deleted)

\* Mutant: a cell counts as one record whatever its repeat count.
ColVarSlot_one(st, slot) ==
    IF slot = NULL THEN WT_STAT_INCR(st, "file_item_col_deleted")
    ELSE WT_STAT_INCR(st, "file_item_total_data")

\* Lines 169-177: what the slot itself does to the counters.
ColVarSlot(st, slot) ==
    IF slot = NULL THEN WT_STAT_INCR(st, "file_item_col_deleted")
    ELSE WT_STAT_INCRV(st, "file_item_total_data", slot)

RECURSIVE ColVarSlots(_, _, _)
ColVarSlots(st, page, i) ==
    IF i > Len(page.slots) THEN st
    ELSE ColVarSlots(ColVarInserts(ColVarSlot(st, page.slots[i]),
                                   WT_COL_INSERT(page, i), 1,
                                   page.slots[i] = NULL),
                     page, i + 1)

__stat_page_col_var(st, page) == ColVarSlots(st, page, 1)

(***************************************************************************)
(* __stat_page_row_leaf, lines 213-251.                                    *)
(***************************************************************************)
RECURSIVE RowInserts(_, _)
RowInserts(ins, j) ==
    IF j > Len(ins) THEN 0
    ELSE (IF ~ins[j] THEN 1 ELSE 0) + RowInserts(ins, j + 1)

\* Mutant: only a slot without an update is counted.
RowSlotCounts_absent(upd) == upd = "none"

\* Line 237: the slot counts unless the head of its updates is a deletion.
RowSlotCounts(upd) == upd = "none" \/ upd # "deleted"

RECURSIVE RowSlots(_, _)
RowSlots(page, i) ==
    IF i > Len(page.keys) THEN 0
    ELSE (IF RowSlotCounts(WT_ROW_UPDATE(page, i)) THEN 1 ELSE 0)
         + RowInserts(WT_ROW_INSERT(page, i), 1) + RowSlots(page, i + 1)

RowLeafCnt(page) == RowInserts(page.smallest, 1) + RowSlots(page, 1)

__stat_page_row_leaf(st, page) ==
    WT_STAT_INCRV(WT_STAT_INCRV(st, "file_item_total_key", RowLeafCnt(page)),
                  "file_item_total_data", RowLeafCnt(page))

(***************************************************************************)
(* __stat_page, lines 96-132: the count of the page's type, the items of a *)
(* leaf; a type that is none of the six is a format error.                 *)
(***************************************************************************)
WT_ILLEGAL_FORMAT == WT_ERROR

__stat_page(st, page) ==
    CASE page.type = "WT_PAGE_COL_FIX" ->
           [ret |-> OK,
            stats |-> __stat_page_col_fix(WT_STAT_INCR(st, "file_col_fix"),
                                          page)]
      [] page.type = "WT_PAGE_COL_INT" ->
           [ret |-> OK, stats |-> WT_STAT_INCR(st, "file_col_internal")]
      [] page.type = "WT_PAGE_COL_VAR" ->
           [ret |-> OK,
            stats |-> __stat_page_col_var(
                          WT_STAT_INCR(st, "file_col_variable"), page)]
      [] page.type = "WT_PAGE_OVFL" ->
           [ret |-> OK, stats |-> WT_STAT_INCR(st, "file_overflow")]
      [] page.type = "WT_PAGE_ROW_INT" ->
           [ret |-> OK, stats |-> WT_STAT_INCR(st, "file_row_internal")]
      [] page.type = "WT_PAGE_ROW_LEAF" ->
           [ret |-> OK,
            stats |-> __stat_page_row_leaf(WT_STAT_INCR(st, "file_row_leaf"),
                                           page)]
      [] OTHER -> [ret |-> WT_ILLEGAL_FORMAT, stats |-> st]

(***************************************************************************)
(* __wt_tree_walk: the pages of the tree, a page before its children and   *)
(* the children left to right, each handed to the callback until one fails.*)
(***************************************************************************)
RECURSIVE __wt_tree_walk(_, _), TreeWalkRefs(_, _, _)
__wt_tree_walk(t, p) == <<p>> \o TreeWalkRefs(t, p, 1)

TreeWalkRefs(t, p, i) ==
    IF i > Len(t[p].refs) THEN <<>>
    ELSE __wt_tree_walk(t, t[p].refs[i].page) \o TreeWalkRefs(t, p, i + 1)

(***************************************************************************)
(* __stat_init, lines 20-41: the settings of the handle are copied, then   *)
(* the tree is walked.                                                     *)
(***************************************************************************)
\* A session runs one operation at a time: the walk starts before a
\* verification or after it.
StatInit ==
    /\ sw.pc = "idle"
    /\ pc \in {"start", "done"}
    /\ stats' = WT_STAT_SET(WT_STAT_SET(stats, "file_allocsize", allocsize),
                            "file_freelist_entries", Len(freelist))
    /\ sw' = [pc |-> "walk", i |-> 1, ret |-> OK]
    /\ UNCHANGED <<inputs, vs, ret, pc, stack, fl, cf, cache, trace, cst>>

StatPage ==
    /\ sw.pc = "walk"
    /\ LET order == __wt_tree_walk(tree, 1)
           r == __stat_page(stats, tree[order[sw.i]])
       IN /\ stats' = r.stats
          /\ sw' = IF r.ret # OK THEN [sw EXCEPT !.pc = "done", !.ret = r.ret]
                   ELSE IF sw.i = Len(order) THEN [sw EXCEPT !.pc = "done"]
                   ELSE [sw EXCEPT !.i = @ + 1]
    /\ UNCHANGED <<inputs, vs, ret, pc, stack, fl, cf, cache, trace, cst>>

(***************************************************************************)
(* The statistics cursor (bt_stat.c, lines 48-90).  btree->stats is a      *)
(* table of entries that ends with an entry without a description;         *)
(* cst->stats points into it: 0 is the null pointer, k the k-th entry.     *)
(* calls and firsts count the calls made on the cursor and those of        *)
(* __wt_btree_stat_first among them; inits and out record, since           *)
(* the last __wt_btree_stat_first, the walks that succeeded and the        *)
(* descriptions that were returned; walked holds the counters as every     *)
(* walk that succeeded left them.                                          *)
(***************************************************************************)
WT_NOTFOUND == "WT_NOTFOUND"

StatTable ==
    <<"file_allocsize", "file_freelist_entries", "file_col_fix",
      "file_col_internal", "file_col_variable", "file_overflow",
      "file_row_internal", "file_row_leaf", "file_item_total_data",
      "file_item_total_key", "file_item_col_deleted">>

\* s->desc == NULL: the entry that ends the table.
DescIsNull(k) == k > Len(StatTable)

NoCursor ==
    [open |-> FALSE, stats |-> 0, notfound |-> FALSE, key |-> "",
     value |-> 0, flags |-> {}, ret |-> OK, calls |-> 0, inits |-> 0,
     out |-> <<>>, walked |-> <<>>, firsts |-> 0]

\* __wt_tree_walk with __stat_page: the pages in order, up to the first
\* error; the walk itself fails at page failAt.
RECURSIVE StatWalk(_, _, _, _, _)
StatWalk(st, t, order, i, failAt) ==
    IF i > Len(order) THEN [ret |-> OK, stats |-> st]
    ELSE IF i = failAt THEN [ret |-> EIO, stats |-> st]
    ELSE LET r == __stat_page(st, t[order[i]]) IN
         IF r.ret # OK THEN r
         ELSE StatWalk(r.stats, t, order, i + 1, failAt)

\* __stat_init, lines 20-41: the fields of the handle's settings are set;
\* the counters of pages and items are not, and the walk adds to what they
\* hold.
__stat_init(st, t, asz, free, fault) ==
    StatWalk(WT_STAT_SET(WT_STAT_SET(st, "file_allocsize", asz),
                         "file_freelist_entries", Len(free)),
             t, __wt_tree_walk(t, 1), 1,
             IF fault = "tree_walk" THEN Len(__wt_tree_walk(t, 1)) ELSE 0)

\* Mutant: the cursor stays where it is.
StatAdvance_stay(k) == k

\* s = cst->stats++, line 78.
StatAdvance(k) == k + 1

\* __wt_btree_stat_next, lines 60-90: the cursor and the counters after the
\* call.
__wt_btree_stat_next(c, st, t, asz, free, fault) ==
    IF c.notfound THEN [cst |-> [c EXCEPT !.ret = WT_NOTFOUND], stats |-> st]
    ELSE
    LET init == IF c.stats = 0 THEN __stat_init(st, t, asz, free, fault)
                ELSE [ret |-> OK, stats |-> st]
        c1 == IF c.stats = 0
              THEN [c EXCEPT !.stats = 1, !.inits = @ + 1,
                             !.walked = Append(@, init.stats)]
              ELSE c
        s == c1.stats
        r == IF DescIsNull(s) THEN WT_NOTFOUND
             ELSE IF fault \in {"key_buf_set", "value_buf_set"} THEN ENOMEM
             ELSE OK
        c2 == [c1 EXCEPT !.stats = StatAdvance(s), !.ret = r]
    IN
    IF init.ret # OK
    THEN [cst |-> [c EXCEPT !.ret = init.ret], stats |-> init.stats]
    ELSE IF DescIsNull(s)
    THEN [cst |-> [c2 EXCEPT !.notfound = TRUE], stats |-> init.stats]
    ELSE IF fault = "key_buf_set"
    THEN [cst |-> c2, stats |-> init.stats]
    ELSE IF fault = "value_buf_set"
    THEN [cst |-> [c2 EXCEPT !.key = StatTable[s],
                             !.flags = @ \cup {"WT_CURSTD_KEY_SET"}],
          stats |-> init.stats]
    ELSE [cst |-> [c2 EXCEPT !.key = StatTable[s],
                             !.value = init.stats[StatTable[s]],
                             !.flags = {"WT_CURSTD_KEY_SET",
                                        "WT_CURSTD_VALUE_SET"},
                             !.out = Append(@, StatTable[s])],
          stats |-> init.stats]

CursorFaults == {"tree_walk", "key_buf_set", "value_buf_set"}

\* __wt_btree_stat_first, lines 48-54.
StatFirst ==
    /\ cst.calls < MaxCalls
    /\ cst.firsts < MaxFirsts
    /\ pc \in {"start", "done"}
    /\ sw.pc # "walk"
    /\ \E fault \in FaultChoice(CursorFaults) :
         LET c == [cst EXCEPT !.open = TRUE, !.stats = 0, !.notfound = FALSE,
                              !.calls = @ + 1, !.inits = 0, !.out = <<>>,
                              !.firsts = @ + 1]
             r == __wt_btree_stat_next(c, stats, tree, allocsize, freelist,
                                       fault)
         IN /\ cst' = r.cst
            /\ stats' = r.stats
    /\ UNCHANGED <<inputs, vs, ret, pc, stack, fl, cf, cache, trace, sw>>

StatNext ==
    /\ cst.open
    /\ cst.calls < MaxCalls
    /\ pc \in {"start", "done"}
    /\ sw.pc # "walk"
    /\ \E fault \in FaultChoice(CursorFaults) :
         LET r == __wt_btree_stat_next([cst EXCEPT !.calls = @ + 1], stats,
                                       tree, allocsize, freelist, fault)
         IN /\ cst' = r.cst
            /\ stats' = r.stats
    /\ UNCHANGED <<inputs, vs, ret, pc, stack, fl, cf, cache, trace, sw>>

(***************************************************************************)
(* Inputs.  An input is a btree handle: the file, the tree, the free list, *)
(* the comparator, and what the collaborators may fail with.               *)
(***************************************************************************)
Input(fsize, asz, t, free, cmp, bad, env, inmem) ==
    [file_size |-> fsize, allocsize |-> asz, tree |-> t, freelist |-> free,
     compare |-> cmp, bad_chunk |-> bad, fault_env |-> env, cache |-> inmem]

AllFaults == {"scr_alloc", "bit_alloc", "key_scr_alloc", "row_key",
              "row_key_last", "ovfl_scr_alloc", "disk_read", "buf_set",
              "page_in", "reconcile"}

\* The size of a file whose body holds n allocation units.
FileOf(asz, n) == BigOf(WT_BTREE_DESC_SECTOR + n * asz)

\* The size of a file whose body holds 2^32 + n allocation units of 512 bytes.
HugeFileOf(n) == Big(2 ^ 25, WT_BTREE_DESC_SECTOR + n * 512)

\* The size of a file whose body holds 2^31 + n allocation units of 512 bytes.
LargeFileOf(n) == Big(2 ^ 24, WT_BTREE_DESC_SECTOR + n * 512)

ColFix(addr, size, recno, entries) ==
    Page("WT_PAGE_COL_FIX", addr, size, recno, entries, <<>>, <<>>, <<>>,
         <<>>, TRUE)

ColVar(addr, size, recno, slots, cells) ==
    Page("WT_PAGE_COL_VAR", addr, size, recno, Len(slots), slots, <<>>, <<>>,
         cells, TRUE)

ColInt(addr, size, recno, refs) ==
    Page("WT_PAGE_COL_INT", addr, size, recno, Len(refs), <<>>, <<>>, refs,
         <<>>, TRUE)

RowLeaf(addr, size, keys, cells) ==
    Page("WT_PAGE_ROW_LEAF", addr, size, 0, Len(keys), <<>>, keys, <<>>,
         cells, TRUE)

RowInt(addr, size, refs, cells, dsk) ==
    Page("WT_PAGE_ROW_INT", addr, size, 0, Len(refs), <<>>, <<>>, refs,
         cells, dsk)

(***************************************************************************)
(* Layouts: a column-store root with two leaves, the second with at most   *)
(* one overflow cell, laid out anywhere in a file of MaxFrags allocation   *)
(* units, with a free list of at most two entries.                         *)
(***************************************************************************)
Addrs == 0 .. MaxFrags - 1

FreeEntries == {Cell(a, n * 512) : a \in 0 .. MaxFrags, n \in 1 .. 2}

FreeLists == {<<>>} \cup {<<e>> : e \in FreeEntries}
                    \cup {<<e1, e2>> : e1 \in FreeEntries, e2 \in FreeEntries}

OvflCells == {<<>>} \cup {<<Cell(a, 512)>> : a \in 0 .. MaxFrags}

LayoutTree(a1, a2, cells) ==
    (1 :> ColInt(0, 512, 1, <<Ref(2, 1, EmptyKey), Ref(3, 2, EmptyKey)>>))
    @@ (2 :> ColFix(a1, 512, 1, 1))
    @@ (3 :> ColVar(a2, 512, 2, <<1>>, cells))

LayoutInputs ==
    {Input(FileOf(512, MaxFrags), 512, LayoutTree(a1, a2, cells), free,
           "lexical", {}, {}, {1}) :
        a1 \in Addrs, a2 \in Addrs, cells \in OvflCells, free \in FreeLists}

(***************************************************************************)
(* File sizes: a root leaf of one allocation unit in files of every kind   *)
(* of size: no data, a body that is no multiple of the allocation size, a  *)
(* body of a few units, more units than an int holds, more than 32 bits    *)
(* hold.                                                                   *)
(***************************************************************************)
SizeTree(asz) == (1 :> ColFix(0, asz, 1, 1))

SmallSizes ==
    {BigOf(n) : n \in {0, 100, WT_BTREE_DESC_SECTOR, WT_BTREE_DESC_SECTOR + 1}}

OddSizes(asz) ==
    {BigOf(WT_BTREE_DESC_SECTOR + n * asz + r) :
        n \in 0 .. 2, r \in {1, asz \div 2, asz - 1}}
    \cup {Big(2 ^ 25, WT_BTREE_DESC_SECTOR + 1)}

GoodSizes(asz) == {FileOf(asz, n) : n \in 1 .. MaxFrags}

LargeSizes == {LargeFileOf(n) : n \in {0, 1}} \cup {Big(2 ^ 25, 0)}

HugeSizes == {HugeFileOf(n) : n \in 1 .. MaxFrags}

SizeInputsOf(asz) ==
    {Input(fsize, asz, SizeTree(asz), free, "lexical", {},
           {"scr_alloc", "bit_alloc"}, inmem) :
        fsize \in SmallSizes \cup OddSizes(asz),
        free \in {<<>>, <<Cell(1, asz)>>},
        inmem \in {{}, {1}}}
    \cup
    {Input(fsize, asz, SizeTree(asz), free, "lexical", {},
           {"scr_alloc", "bit_alloc"}, {1}) :
        fsize \in GoodSizes(asz),
        free \in {<<>>, <<Cell(1, asz)>>, <<Cell(1, 2 * asz)>>,
                  <<Cell(1, asz), Cell(2, 2 * asz)>>}}

SizeInputs ==
    UNION {SizeInputsOf(asz) : asz \in AllocSizes}
    \cup
    {Input(fsize, 512, SizeTree(512), free, "lexical", {},
           {"scr_alloc", "bit_alloc"}, {1}) :
        fsize \in LargeSizes \cup HugeSizes,
        free \in {<<>>, <<Cell(1, 512)>>, <<Cell(1, 1024)>>,
                  <<Cell(1, 512), Cell(2, 1024)>>}}

(***************************************************************************)
(* Faults: two small trees, one of each store, with every collaborator     *)
(* free to fail and overflow chunks that may be malformed.                 *)
(***************************************************************************)
FaultColTree ==
    (1 :> ColInt(0, 512, 1, <<Ref(2, 1, EmptyKey), Ref(3, 3, EmptyKey)>>))
    @@ (2 :> ColFix(1, 512, 1, 2))
    @@ (3 :> ColVar(2, 512, 3, <<NULL, 2>>, <<Cell(3, 512)>>))

FaultRowTree ==
    (1 :> RowInt(0, 512, <<Ref(2, 0, EmptyKey), Ref(3, 0, 2)>>,
                 <<Cell(3, 512)>>, TRUE))
    @@ (2 :> RowLeaf(1, 512, <<1>>, <<>>))
    @@ (3 :> RowLeaf(2, 512, <<2, 3>>, <<>>))

FaultInputs ==
    {Input(FileOf(512, 5), 512, t, <<Cell(4, 512)>>, "lexical", bad,
           AllFaults, {1}) :
        t \in {FaultColTree, FaultRowTree}, bad \in {{}, {3}}}

(***************************************************************************)
(* Column-store trees of three levels, in two shapes, the leaves with      *)
(* every content of up to MaxRecs records a cell and two cells a page.     *)
(* The recnos are the right ones, but for at most one field of the tree (a *)
(* page's recno or a reference's recno) moved by -1, 1 or 2.               *)
(***************************************************************************)
FixEntries == 1 .. MaxRecs

VarSlots == {<<a>> : a \in 0 .. MaxRecs}
                \cup {<<a, b>> : a \in 0 .. MaxRecs, b \in 0 .. MaxRecs}

RecnoFields == 1 .. 9

RecnoDeltas ==
    {[f \in RecnoFields |-> 0]}
    \cup {[f \in RecnoFields |-> IF f = g THEN d ELSE 0] :
             g \in RecnoFields, d \in {-1, 1, 2}}

\* root -> [A -> [fix leaf, var leaf], fix leaf]
ColTreeA(n1, slots, n3, d) ==
    LET n2 == ColVarRecords(slots, 1) IN
    (1 :> ColInt(0, 512, 1 + d[1],
                 <<Ref(2, 1 + d[2], EmptyKey),
                   Ref(5, 1 + n1 + n2 + d[3], EmptyKey)>>))
    @@ (2 :> ColInt(1, 512, 1 + d[4],
                    <<Ref(3, 1 + d[5], EmptyKey),
                      Ref(4, 1 + n1 + d[6], EmptyKey)>>))
    @@ (3 :> ColFix(2, 512, 1 + d[7], n1))
    @@ (4 :> ColVar(3, 512, 1 + n1 + d[8], slots, <<>>))
    @@ (5 :> ColFix(4, 512, 1 + n1 + n2 + d[9], n3))

\* root -> [var leaf, A -> [fix leaf, fix leaf]]
ColTreeB(slots, n2, n3, d) ==
    LET n1 == ColVarRecords(slots, 1) IN
    (1 :> ColInt(0, 512, 1 + d[1],
                 <<Ref(2, 1 + d[2], EmptyKey),
                   Ref(3, 1 + n1 + d[3], EmptyKey)>>))
    @@ (2 :> ColVar(1, 512, 1 + d[7], slots, <<>>))
    @@ (3 :> ColInt(2, 512, 1 + n1 + d[4],
                    <<Ref(4, 1 + n1 + d[5], EmptyKey),
                      Ref(5, 1 + n1 + n2 + d[6], EmptyKey)>>))
    @@ (4 :> ColFix(3, 512, 1 + n1 + d[8], n2))
    @@ (5 :> ColFix(4, 512, 1 + n1 + n2 + d[9], n3))

\* Five pages and one free fragment in a file of six.
ColInput(t) ==
    Input(FileOf(512, 6), 512, t, <<Cell(5, 512)>>, "lexical", {}, {}, {1})

(***************************************************************************)
(* Row-store trees of three levels, in two shapes.  A leaf holds one or    *)
(* two keys of 0 .. MaxKey in the comparator's order (the page reader has  *)
(* checked the order inside a page); the keys of the references are any.   *)
(***************************************************************************)
Keys == 0 .. MaxKey

LeafKeys(cmp) ==
    {<<a>> : a \in Keys}
    \cup {k \in {<<a, b>> : a \in Keys, b \in Keys} :
             btree_compare(cmp, k[1], k[2]) < 0}

\* root -> [A -> [L1, L2], L3]
RowTreeA(l1, l2, l3, f0, fa, fr) ==
    (1 :> RowInt(0, 512, <<Ref(2, 0, f0), Ref(5, 0, fr)>>, <<>>, FALSE))
    @@ (2 :> RowInt(1, 512, <<Ref(3, 0, EmptyKey), Ref(4, 0, fa)>>, <<>>,
                    FALSE))
    @@ (3 :> RowLeaf(2, 512, l1, <<>>))
    @@ (4 :> RowLeaf(3, 512, l2, <<>>))
    @@ (5 :> RowLeaf(4, 512, l3, <<>>))

\* root -> [L1, A -> [L2, L3]]
RowTreeB(l1, l2, l3, f0, fr, fa) ==
    (1 :> RowInt(0, 512, <<Ref(2, 0, EmptyKey), Ref(3, 0, fr)>>, <<>>, FALSE))
    @@ (2 :> RowLeaf(1, 512, l1, <<>>))
    @@ (3 :> RowInt(2, 512, <<Ref(4, 0, f0), Ref(5, 0, fa)>>, <<>>, FALSE))
    @@ (4 :> RowLeaf(3, 512, l2, <<>>))
    @@ (5 :> RowLeaf(4, 512, l3, <<>>))

RowInput(t, cmp) ==
    Input(FileOf(512, 6), 512, t, <<Cell(5, 512)>>, cmp, {}, {}, {1})

(***************************************************************************)
(* The state before __verify_int is called on an input.                    *)
(***************************************************************************)
InitOn(in) ==
    /\ file_size = in.file_size
    /\ allocsize = in.allocsize
    /\ tree = in.tree
    /\ freelist = in.freelist
    /\ compare = in.compare
    /\ bad_chunk = in.bad_chunk
    /\ fault_env = in.fault_env
    /\ cache = in.cache
    /\ vs = [frags |-> Big(0, 0), fragbits |-> {}, record_total |-> 0,
             max_key |-> EmptyKey, max_addr |-> 0, fcnt |-> 0, held |-> {}]
    /\ ret = OK
    /\ pc = "start"
    /\ stack = <<>>
    /\ fl = [i |-> 1, ret |-> OK]
    /\ cf = [ffc_start |-> -1, ffc_end |-> -1, ret |-> OK, entry_bits |-> {}]
    /\ trace = <<>>
    /\ stats = NoStats
    /\ sw = [pc |-> "idle", i |-> 0, ret |-> OK]
    /\ cst = NoCursor

Init == \E in \in LayoutInputs \cup SizeInputs \cup FaultInputs : InitOn(in)

Spec == Init /\ [][Next]_vars

InitCol ==
    \E n \in FixEntries, slots \in VarSlots, d \in RecnoDeltas :
        \/ InitOn(ColInput(ColTreeA(n, slots, 1, d)))
        \/ InitOn(ColInput(ColTreeB(slots, n, 1, d)))

SpecCol == InitCol /\ [][Next]_vars

\* Under the reverse comparator only the first leaf and the first compared
\* reference vary.
InitRow ==
    \/ \E l1 \in LeafKeys("lexical"), l2 \in LeafKeys("lexical"),
          k3 \in {1, MaxKey},
          f0 \in {EmptyKey, MaxKey}, f1 \in Keys, f2 \in Keys :
           InitOn(RowInput(RowTreeA(l1, l2, <<k3>>, f0, f1, f2), "lexical"))
    \/ \E l1 \in LeafKeys("lexical"), k2 \in Keys, k3 \in {1, MaxKey},
          f0 \in {EmptyKey, MaxKey}, f1 \in Keys, f2 \in Keys :
           InitOn(RowInput(RowTreeB(l1, <<k2>>, <<k3>>, f0, f1, f2),
                           "lexical"))
    \/ \E l1 \in LeafKeys("reverse"), fa \in Keys :
           InitOn(RowInput(RowTreeA(l1, <<1>>, <<0>>, EmptyKey, fa, 1),
                           "reverse"))

SpecRow == InitRow /\ [][Next]_vars

(***************************************************************************)
(* What the claims speak of, read off the state and the trace.             *)
(***************************************************************************)
Returned == pc = "done"

Events(op, what) == {i \in DOMAIN trace : trace[i].op = op /\ trace[i].what = what}

EventsOf(op) == {i \in DOMAIN trace : trace[i].op = op}

\* The successful calls of __verify_addfrag, and how often each charged i.
Charging == {i \in EventsOf("addfrag") : trace[i].ret = OK}

Charges(i) ==
    Cardinality({j \in Charging :
        /\ trace[j].a <= i
        /\ i < trace[j].a + trace[j].b \div allocsize})

\* The allocation units of the file body, counted without any truncation.
TotalFrags == BigDiv(BigSub(file_size, WT_BTREE_DESC_SECTOR), allocsize)

\* The fragments of the file of index below Limb: all of them in a file of
\* fewer than Limb units.
FragsBelowLimb ==
    IF TotalFrags.hi = 0 THEN 0 .. TotalFrags.lo - 1 ELSE 0 .. Limb - 1

BodyIsWhole ==
    \E q \in 0 .. Limb \div allocsize - 1 :
        file_size.lo = (WT_BTREE_DESC_SECTOR + q * allocsize) % Limb

BodyIsEmpty ==
    file_size.hi = 0 /\ file_size.lo \in 0 .. WT_BTREE_DESC_SECTOR

Diagnosed(what) == Events("errx", what) # {}

(***************************************************************************)
(* C1.  If verification returns 0, every fragment of the file body was     *)
(* charged exactly once: by a page of the walk, by an overflow page or by  *)
(* a free-list entry.                                                      *)
(***************************************************************************)
C1_CoveragePartition ==
    (Returned /\ ret = OK) => \A i \in FragsBelowLimb : Charges(i) = 1

\* The same for the files whose count of fragments an int holds.
CoveragePartitionWithinInt ==
    (Returned /\ ret = OK /\ TotalFrags.hi < 2 ^ 15)
        => /\ TotalFrags.hi = 0
           /\ \A i \in 0 .. TotalFrags.lo - 1 : Charges(i) = 1
           /\ \A j \in Charging :
                  trace[j].a + trace[j].b \div allocsize <= TotalFrags.lo

CoverageSuccessReached ==
    Returned /\ ret = OK /\ TotalFrags.hi = 0
    /\ Events("addfrag", "free") # {} /\ Events("addfrag", "overflow") # {}

(***************************************************************************)
(* C8.  Whatever the path, the step that returns from __verify_int first   *)
(* evicts the root page if it is in memory, frees the frag-map if it was   *)
(* allocated and releases the buffer of the largest key if it was          *)
(* allocated, each once, and none of the three happens at any other time.  *)
(***************************************************************************)
RootEvictions == Events("reconcile", "root")

FragMapAllocs == {i \in EventsOf("bit_alloc") : trace[i].ret = OK}

MaxKeyAllocs == {i \in Events("scr_alloc", "max_key") : trace[i].ret = OK}

C8_TeardownOnEveryPath ==
    [][/\ (pc # "done" /\ pc' = "done") =>
            /\ Cardinality(RootEvictions') = IF 1 \in cache THEN 1 ELSE 0
            /\ Cardinality(Events("free", "fragbits")')
                   = Cardinality(FragMapAllocs)
            /\ Cardinality(Events("scr_release", "max_key")')
                   = Cardinality(MaxKeyAllocs)
            /\ Cardinality(FragMapAllocs) <= 1
            /\ Cardinality(MaxKeyAllocs) <= 1
       /\ (pc' # "done") =>
            /\ RootEvictions' = {}
            /\ Events("free", "fragbits")' = {}
            /\ Events("scr_release", "max_key")' = {}
            /\ 1 \in cache <=> 1 \in cache'
      ]_vars

C8_TeardownAfterWalkError ==
    /\ Returned /\ ret = WT_ERROR
    /\ Diagnosed("already verified")
    /\ RootEvictions # {}
    /\ Events("free", "fragbits") # {}
    /\ Events("scr_release", "max_key") # {}

(***************************************************************************)
(* C9.  A file with no data (size <= 512) or whose body is no multiple of  *)
(* the allocation size is refused: the result is not 0, and it is WT_ERROR *)
(* unless the allocation of the key buffer failed before the file size was *)
(* looked at; no frag-map is allocated, no page is visited or charged, the *)
(* free list is not read, the coverage audit does not run.                 *)
(***************************************************************************)
C9_BadSizeRefused ==
    (Returned /\ (BodyIsEmpty \/ ~BodyIsWhole)) =>
        /\ ret # OK
        /\ MaxKeyAllocs # {} => ret = WT_ERROR
        /\ EventsOf("bit_alloc") = {}
        /\ EventsOf("addfrag") = {}
        /\ EventsOf("page_in") = {}
        /\ vs.fcnt = 0 /\ vs.fragbits = {} /\ vs.record_total = 0
        /\ fl.i = 1
        /\ ~Diagnosed("fragment never verified")
        /\ ~Diagnosed("fragments never verified")

C9_BadSizeReached ==
    /\ Returned /\ ret = WT_ERROR
    /\ ~BodyIsEmpty /\ ~BodyIsWhole
    /\ Diagnosed("file size not valid")

(***************************************************************************)
(* C10.  Every file whose body holds more than INT_MAX allocation units is *)
(* refused as too large to verify, before the frag-map is allocated.       *)
(***************************************************************************)
C10_TooLargeRefused ==
    (Returned /\ BodyIsWhole /\ TotalFrags.hi >= 2 ^ 15 /\ MaxKeyAllocs # {})
        => Diagnosed("too large to verify") /\ EventsOf("bit_alloc") = {}

\* The same for the counts that 32 bits hold.
TooLargeRefusedWithin32Bits ==
    (Returned /\ BodyIsWhole /\ TotalFrags.hi \in 2 ^ 15 .. 2 ^ 16 - 1
        /\ MaxKeyAllocs # {})
        => Diagnosed("too large to verify") /\ EventsOf("bit_alloc") = {}

(***************************************************************************)
(* __verify_addfrag on its own: any frag-map of MaxFrags bits, any range   *)
(* inside it, any size (a multiple of the allocation size or not).         *)
(***************************************************************************)
AddfragSizes(asz) == {k * asz + r : k \in 0 .. 2, r \in {0, 1, asz - 1}}

AddfragCall ==
    /\ pc = "addfrag"
    /\ \E addr \in 0 .. MaxFrags - 1, size \in AddfragSizes(allocsize) :
         /\ addr + size \div allocsize <= U32Val(vs.frags)
         /\ LET r == __verify_addfrag(vs.fragbits, allocsize, addr, size) IN
            /\ vs' = [vs EXCEPT !.fragbits = r.bits]
            /\ trace' = <<Ev("addfrag", "call", addr, size, r.ret)>>
    /\ UNCHANGED <<inputs, statvars, ret, pc, stack, fl, cf, cache>>

InitAddfrag ==
    /\ \E asz \in AllocSizes :
         /\ allocsize = asz
         /\ file_size = FileOf(asz, MaxFrags)
         /\ tree = SizeTree(asz)
    /\ freelist = <<>>
    /\ compare = "lexical"
    /\ bad_chunk = {}
    /\ fault_env = {}
    /\ cache = {1}
    /\ \E bits \in SUBSET (0 .. MaxFrags - 1) :
         vs = [frags |-> BigOf(MaxFrags), fragbits |-> bits,
               record_total |-> 0, max_key |-> EmptyKey,
               max_addr |-> WT_ADDR_INVALID, fcnt |-> 0,
               held |-> {"max_key", "fragbits"}]
    /\ ret = OK
    /\ pc = "addfrag"
    /\ stack = <<>>
    /\ fl = [i |-> 1, ret |-> OK]
    /\ cf = [ffc_start |-> -1, ffc_end |-> -1, ret |-> OK, entry_bits |-> {}]
    /\ trace = <<>>
    /\ stats = NoStats
    /\ sw = [pc |-> "idle", i |-> 0, ret |-> OK]
    /\ cst = NoCursor

SpecAddfrag == InitAddfrag /\ [][AddfragCall]_vars

(***************************************************************************)
(* C2.  __verify_addfrag(addr, size), k = size / allocsize: it fails, with *)
(* WT_ERROR, exactly when one of the bits addr .. addr+k-1 is set; when it *)
(* fails the map is unchanged; when it succeeds exactly those bits become  *)
(* set; k = 0 succeeds and changes nothing.                                *)
(***************************************************************************)
C2_AddfragContract ==
    [][LET e == trace'[1]
           k == e.b \div allocsize
           range == {i \in 0 .. MaxFrags + 2 : e.a <= i /\ i < e.a + k}
       IN
       /\ e.ret \in {OK, WT_ERROR}
       /\ e.ret = WT_ERROR <=> range \cap vs.fragbits # {}
       /\ e.ret = WT_ERROR => vs'.fragbits = vs.fragbits
       /\ e.ret = OK => vs'.fragbits = vs.fragbits \cup range
       /\ k = 0 => e.ret = OK /\ vs'.fragbits = vs.fragbits
      ]_vars

\* A range of two fragments refused because its second fragment is charged.
C2_AddfragRefusedReached ==
    /\ pc = "addfrag" /\ trace # <<>>
    /\ trace[1].ret = WT_ERROR
    /\ trace[1].b \div allocsize = 2
    /\ trace[1].a \notin vs.fragbits
    /\ trace[1].a + 1 \in vs.fragbits

(***************************************************************************)
(* __verify_checkfrag on its own: any frag-map of up to MaxFrags + 1 bits. *)
(***************************************************************************)
InitCheckfrag ==
    /\ allocsize = 512
    /\ tree = SizeTree(512)
    /\ freelist = <<>>
    /\ compare = "lexical"
    /\ bad_chunk = {}
    /\ fault_env = {}
    /\ cache = {1}
    /\ \E n \in 1 .. MaxFrags + 1 :
         /\ file_size = FileOf(512, n)
         /\ \E bits \in SUBSET (0 .. n - 1) :
              /\ vs = [frags |-> BigOf(n), fragbits |-> bits,
                       record_total |-> 0, max_key |-> EmptyKey,
                       max_addr |-> WT_ADDR_INVALID, fcnt |-> 0,
                       held |-> {"max_key", "fragbits"}]
              /\ cf = [ffc_start |-> -1, ffc_end |-> -1, ret |-> OK,
                       entry_bits |-> bits]
    /\ ret = OK
    /\ pc = "checkfrag"
    /\ stack = <<>>
    /\ fl = [i |-> 1, ret |-> OK]
    /\ trace = <<>>
    /\ stats = NoStats
    /\ sw = [pc |-> "idle", i |-> 0, ret |-> OK]
    /\ cst = NoCursor

\* The loop is run by one thread that does nothing else: it keeps stepping.
SpecCheckfrag ==
    InitCheckfrag /\ [][CheckfragStep]_vars /\ WF_vars(CheckfragStep)

(***************************************************************************)
(* C3.  __verify_checkfrag ends, with every bit of the map set; it returns *)
(* an error exactly when a bit was unset when it started; it reports each  *)
(* maximal run of unset bits once, by its first and last index (by one     *)
(* index when the run has one bit), the runs in increasing order.          *)
(***************************************************************************)
\* The maximal runs of the bits of 0..n-1 that are not in bits.
UnsetRuns(bits, n) ==
    {r \in (0 .. n - 1) \X (0 .. n - 1) :
        /\ r[1] <= r[2]
        /\ \A i \in r[1] .. r[2] : i \notin bits
        /\ r[1] = 0 \/ r[1] - 1 \in bits
        /\ r[2] = n - 1 \/ r[2] + 1 \in bits}

CheckfragReturned == pc = "teardown"

CheckfragResult ==
    LET n == U32Val(vs.frags)
        runs == UnsetRuns(cf.entry_bits, n)
    IN
    /\ \A i \in 0 .. n - 1 : i \in vs.fragbits
    /\ ret = (IF \E i \in 0 .. n - 1 : i \notin cf.entry_bits
              THEN WT_ERROR ELSE OK)
    /\ Len(trace) = Cardinality(runs)
    /\ \A j \in DOMAIN trace :
         /\ trace[j].op = "errx"
         /\ <<trace[j].a, trace[j].b>> \in runs
         /\ trace[j].what = (IF trace[j].a = trace[j].b
                             THEN "fragment never verified"
                             ELSE "fragments never verified")
         /\ \A h \in 1 .. j - 1 : trace[h].b < trace[j].a

C3_CheckfragReportsRuns ==
    [](CheckfragReturned => CheckfragResult) /\ <>CheckfragReturned

\* Two runs, the first of two bits and the second of one, both reported.
C3_TwoRunsReached ==
    /\ CheckfragReturned
    /\ Len(trace) = 2
    /\ trace[1].a < trace[1].b
    /\ trace[2].a = trace[2].b


(***************************************************************************)
(* The tree read without the walk: the pages in depth-first order, the     *)
(* records of a page, the references to a page.                            *)
(***************************************************************************)
RECURSIVE Dfs(_, _), DfsRefs(_, _, _)
Dfs(t, p) == <<p>> \o DfsRefs(t, p, 1)

DfsRefs(t, p, i) ==
    IF i > Len(t[p].refs) THEN <<>>
    ELSE Dfs(t, t[p].refs[i].page) \o DfsRefs(t, p, i + 1)

DfsOrder == Dfs(tree, 1)

DfsPos(p) == CHOOSE j \in DOMAIN DfsOrder : DfsOrder[j] = p

RECURSIVE SeqSum(_)
SeqSum(q) == IF q = <<>> THEN 0 ELSE Head(q) + SeqSum(Tail(q))

\* A deleted cell is one record, another cell as many as its repeat count.
LogicalRecords(p) ==
    IF tree[p].type = "WT_PAGE_COL_FIX" THEN tree[p].entries
    ELSE IF tree[p].type = "WT_PAGE_COL_VAR"
    THEN SeqSum(tree[p].slots)
           + Cardinality({j \in DOMAIN tree[p].slots : tree[p].slots[j] = NULL})
    ELSE 0

ExpectedRecno(p) ==
    1 + SeqSum([j \in 1 .. DfsPos(p) - 1 |-> LogicalRecords(DfsOrder[j])])

RefsTo(p) ==
    {r \in UNION {{tree[q].refs[j] : j \in DOMAIN tree[q].refs} :
                     q \in DOMAIN tree} : r.page = p}

\* The recno the walk of page p is given: 1 for the root.
PassedDown(p) ==
    IF p = 1 THEN 1 ELSE (CHOOSE r \in RefsTo(p) : TRUE).recno

PageAt(addr) == CHOOSE p \in DOMAIN tree : tree[p].addr = addr

(***************************************************************************)
(* C4.  Column store: after a successful verification every page starts at *)
(* 1 + the records of the leaves before it in depth-first order.  A child  *)
(* is paged in only through a reference of that recno and from a parent    *)
(* whose own recno is the one passed down to it; a visited page whose      *)
(* recno is not the one passed down is reported, with both numbers; after  *)
(* the report no page is paged in or charged, and the result is WT_ERROR.  *)
(***************************************************************************)
C4_ColumnRecnoContinuity ==
    /\ (Returned /\ ret = OK) =>
          \A p \in DOMAIN tree :
              /\ tree[p].recno = ExpectedRecno(p)
              /\ \A r \in RefsTo(p) : r.recno = ExpectedRecno(p)
    /\ \A j \in EventsOf("page_in") :
          /\ \A r \in RefsTo(trace[j].a) : r.recno = ExpectedRecno(trace[j].a)
          /\ tree[trace[j].b].recno = PassedDown(trace[j].b)
    /\ \A j \in Events("addfrag", "page") :
          LET p == PageAt(trace[j].a) IN
          (trace[j].ret = OK /\ tree[p].recno # PassedDown(p)) =>
              /\ j + 1 \in Events("errx", "starting record")
              /\ trace[j + 1].b = tree[p].recno
              /\ trace[j + 1].c = PassedDown(p)
    /\ \A i \in Events("errx", "starting record") :
          /\ trace[i].b # trace[i].c
          /\ \A j \in DOMAIN trace :
                j > i => trace[j].op \notin {"page_in", "addfrag"}
          /\ pc \in {"tree", "teardown", "done"}
          /\ pc \in {"teardown", "done"} => ret = WT_ERROR

\* A reference one past the expected recno, after records were counted, was
\* refused and its page never paged in.
C4_RefOnePastExpected ==
    /\ Returned
    /\ ret = WT_ERROR
    /\ \E i \in Events("errx", "starting record") :
          /\ trace[i].c > 1
          /\ trace[i].b = trace[i].c + 1
          /\ \A j \in EventsOf("page_in") : tree[trace[j].a].addr # trace[i].a

(***************************************************************************)
(* The keys of a row-store tree in depth-first order: the keys of the      *)
(* leaves and the keys of the references but the first of each page.       *)
(***************************************************************************)
IsRowLeaf(p) == tree[p].type = "WT_PAGE_ROW_LEAF"

LeafOrder == SelectSeq(DfsOrder, IsRowLeaf)

RECURSIVE KeySeq(_, _), KeySeqRefs(_, _, _)
KeySeq(t, p) ==
    IF t[p].type = "WT_PAGE_ROW_LEAF"
    THEN [j \in DOMAIN t[p].keys |-> [key |-> t[p].keys[j], fence |-> FALSE]]
    ELSE KeySeqRefs(t, p, 1)

KeySeqRefs(t, p, i) ==
    IF i > Len(t[p].refs) THEN <<>>
    ELSE (IF i >= 2 THEN <<[key |-> t[p].refs[i].key, fence |-> TRUE]>>
          ELSE <<>>)
         \o KeySeq(t, t[p].refs[i].page) \o KeySeqRefs(t, p, i + 1)

KeyOrder == KeySeq(tree, 1)

(***************************************************************************)
(* C5.  Row store: after a successful verification the first key of every  *)
(* leaf is strictly greater than the last key of the leaf before it in     *)
(* depth-first order.                                                      *)
(***************************************************************************)
C5_ConsecutiveLeavesOrdered ==
    (Returned /\ ret = OK) =>
        \A j \in 1 .. Len(LeafOrder) - 1 :
            LET prev == tree[LeafOrder[j]].keys
                next == tree[LeafOrder[j + 1]].keys
            IN btree_compare(compare, next[1], prev[Len(prev)]) > 0

(***************************************************************************)
(* C6.  Row store: after a successful verification the key of every        *)
(* reference of index >= 1 is strictly greater than every key before it in *)
(* depth-first order; the key of a reference of index 0 is never compared. *)
(***************************************************************************)
C6_FenceAboveEarlierKeys ==
    /\ (Returned /\ ret = OK) =>
          \A j \in DOMAIN KeyOrder :
              KeyOrder[j].fence =>
                  \A h \in 1 .. j - 1 :
                      btree_compare(compare, KeyOrder[j].key,
                                    KeyOrder[h].key) > 0
    /\ \A i \in EventsOf("row_int_key_order") : trace[i].b >= 1

\* The part of C6 that holds: only references of index >= 1 are compared.
FenceZeroNeverCompared ==
    \A i \in EventsOf("row_int_key_order") : trace[i].b >= 1

RowLeafComparisonFailed ==
    \E j \in Events("row_leaf_key_order", "compared") : trace[j].ret = WT_ERROR


(***************************************************************************)
(* Trees for the statistics walk: a root and two leaves, five pages worth  *)
(* of file with the free list, so that the verification succeeds as well.  *)
(* The leaves carry insert lists of up to MaxIns entries and update chains.*)
(***************************************************************************)
InsLists ==
    {<<>>} \cup UNION {[1 .. n -> BOOLEAN] : n \in 1 .. MaxIns}

ShortInsLists == {<<>>, <<TRUE>>, <<FALSE>>}

UpdHeads == {"none", "live", "deleted"}

StatInput(t) ==
    Input(FileOf(512, 4), 512, t, <<Cell(3, 512)>>, "lexical", {}, {}, {1})

\* root -> [var leaf, fix leaf]
StatColTree(slots, ins, n) ==
    (1 :> ColInt(0, 512, 1,
                 <<Ref(2, 1, EmptyKey),
                   Ref(3, 1 + ColVarRecords(slots, 1), EmptyKey)>>))
    @@ (2 :> [ColVar(1, 512, 1, slots, <<>>) EXCEPT !.ins = ins])
    @@ (3 :> ColFix(2, 512, 1 + ColVarRecords(slots, 1), n))

\* root -> [row leaf <<1>>, row leaf <<2, 3>>]
StatRowTree(smallest, upd, ins, upd2) ==
    (1 :> RowInt(0, 512, <<Ref(2, 0, EmptyKey), Ref(3, 0, 2)>>, <<>>, FALSE))
    @@ (2 :> [RowLeaf(1, 512, <<1>>, <<>>) EXCEPT
                 !.smallest = smallest, !.upd = upd, !.ins = <<ins>>])
    @@ (3 :> [RowLeaf(2, 512, <<2, 3>>, <<>>) EXCEPT !.upd = upd2])

\* A page of no known type: as a leaf, and as the root.
StatOddTree(type, n) ==
    (1 :> ColInt(0, 512, 1, <<Ref(2, 1, EmptyKey), Ref(3, 1, EmptyKey)>>))
    @@ (2 :> Page(type, 1, 512, 1, 0, <<>>, <<>>, <<>>, <<>>, TRUE))
    @@ (3 :> ColFix(2, 512, 1, n))

StatOddRoot(type) ==
    (1 :> Page(type, 0, 2048, 1, 0, <<>>, <<>>, <<>>, <<>>, TRUE))

OddTypes == {"WT_PAGE_INVALID", "WT_PAGE_OVFL"}

InitStat ==
    \/ \E a \in 0 .. MaxRecs, i1 \in InsLists, n \in FixEntries :
           InitOn(StatInput(StatColTree(<<a>>, <<i1>>, n)))
    \/ \E a \in 0 .. MaxRecs, b \in 0 .. MaxRecs, i1 \in InsLists,
          i2 \in ShortInsLists, n \in FixEntries :
           InitOn(StatInput(StatColTree(<<a, b>>, <<i1, i2>>, n)))
    \/ \E a \in 0 .. MaxRecs, n \in FixEntries :
           InitOn(StatInput(StatColTree(<<a>>, <<>>, n)))
    \/ \E smallest \in InsLists, u \in UpdHeads, ins \in InsLists,
          upd2 \in {<<>>, <<"deleted", "live">>} :
           \/ InitOn(StatInput(StatRowTree(smallest, <<u>>, ins, upd2)))
           \/ /\ u = "none"
              /\ InitOn(StatInput(StatRowTree(smallest, <<>>, ins, upd2)))
    \/ \E type \in OddTypes, n \in FixEntries :
           \/ InitOn(StatInput(StatOddTree(type, n)))
           \/ /\ n = 1
              /\ InitOn(Input(FileOf(512, 4), 512, StatOddRoot(type), <<>>,
                              "lexical", {}, {}, {1}))

NextStat ==
    \/ Next
    \/ StatInit
    \/ StatPage

SpecStat == InitStat /\ [][NextStat]_vars

\* Both walks have gone over the whole tree.
Verified == pc = "done" /\ ret = OK

StatWalked == sw.pc = "done" /\ sw.ret = OK

IsColumnTree == \A p \in DOMAIN tree : tree[p].type \in ColTypes

body_size == BigSub(file_size, WT_BTREE_DESC_SECTOR)

\* The fragments of an (addr, size) of the file.
FragsOf(e) == e.addr .. e.addr + e.size \div allocsize - 1

EndsPastBody(e) == ~IntLeBig(e.addr * allocsize + e.size, body_size)

EndsWithBody(e) == BigOf(e.addr * allocsize + e.size) = body_size

FreeErrors == {i \in Events("addfrag", "free") : trace[i].ret # OK}

(***************************************************************************)
(* C12.  A turn of __verify_freelist on an entry that ends past the body   *)
(* reports it, leaves the frag-map as it was and makes the verification    *)
(* return WT_ERROR.  Any other entry, one that ends with the body too, is  *)
(* handed to addfrag: if one of its fragments is charged already the map   *)
(* is left as it was and the free list's result is an error, otherwise its *)
(* fragments are charged.  A verification in which an entry overlapped     *)
(* returns an error.                                                       *)
(***************************************************************************)
C12_FreelistBoundsAndCharges ==
    /\ [][(pc = "freelist" /\ fl.i <= Len(freelist)) =>
            LET fe == freelist[fl.i] IN
            IF EndsPastBody(fe)
            THEN /\ pc' = "teardown"
                 /\ ret' = WT_ERROR
                 /\ vs'.fragbits = vs.fragbits
                 /\ Len(trace') = Len(trace) + 1
                 /\ trace'[Len(trace')].op = "errx"
                 /\ trace'[Len(trace')].a = fe.addr
            ELSE /\ pc' = "freelist"
                 /\ fl'.i = fl.i + 1
                 /\ trace'[Len(trace) + 1].op = "addfrag"
                 /\ trace'[Len(trace) + 1].a = fe.addr
                 /\ trace'[Len(trace) + 1].b = fe.size
                 /\ IF FragsOf(fe) \cap vs.fragbits # {}
                    THEN /\ vs'.fragbits = vs.fragbits
                         /\ fl'.ret = WT_ERROR
                         /\ trace'[Len(trace) + 1].ret = WT_ERROR
                    ELSE /\ vs'.fragbits = vs.fragbits \cup FragsOf(fe)
                         /\ fl'.ret = fl.ret
                         /\ trace'[Len(trace) + 1].ret = OK]_vars
    /\ []((Returned /\ FreeErrors # {}) => ret = WT_ERROR)

\* An entry that ends exactly where the body ends was charged, and the
\* verification succeeded.
C12_EntryEndingWithBodyCharged ==
    /\ Returned
    /\ ret = OK
    /\ \E i \in Events("addfrag", "free") :
          /\ trace[i].ret = OK
          /\ EndsWithBody(Cell(trace[i].a, trace[i].b))

\* An entry past the end of the body was refused.
FreeEntryPastBodyRefused ==
    /\ Returned
    /\ Diagnosed("free-list entry references non-existent file pages")


(***************************************************************************)
(* Free lists of up to three entries, anywhere in and past a file of       *)
(* MaxFrags allocation units that holds a root and one leaf.               *)
(***************************************************************************)
FreeTree ==
    (1 :> ColInt(0, 512, 1, <<Ref(2, 1, EmptyKey)>>))
    @@ (2 :> ColFix(1, 512, 1, 1))

FreeInput(free) ==
    Input(FileOf(512, MaxFrags), 512, FreeTree, free, "lexical", {}, {}, {1})

InitFree ==
    \E e1 \in FreeEntries, e2 \in FreeEntries, e3 \in FreeEntries :
        \/ InitOn(FreeInput(<<e1, e2, e3>>))
        \/ InitOn(FreeInput(<<e1, e2>>))
        \/ InitOn(FreeInput(<<e1>>))

SpecFree == InitFree /\ [][Next]_vars

\* The entries of the free list that were handed to addfrag, in order.
FreeCalls == SelectSeq([i \in DOMAIN trace |-> i],
                       LAMBDA i : i \in Events("addfrag", "free"))

\* What was charged before event e: by pages, overflow pages and entries.
ChargedBefore(e) ==
    UNION {FragsOf(Cell(trace[h].a, trace[h].b)) : h \in {j \in Charging : j < e}}

\* Entry j of the free list was handed to addfrag, and addfrag charged it
\* or refused it as the frag-map of that time demands.
FreeEntryTried(j) ==
    /\ j <= Len(FreeCalls)
    /\ LET e == FreeCalls[j] IN
       /\ trace[e].a = freelist[j].addr
       /\ trace[e].b = freelist[j].size
       /\ trace[e].ret = OK <=>
             FragsOf(freelist[j]) \cap ChargedBefore(e) = {}
       /\ trace[e].ret # OK =>
             /\ trace[e + 1].op = "errx"
             /\ trace[e + 1].what = "already verified"
             /\ trace[e + 1].a = freelist[j].addr

(***************************************************************************)
(* C13 as stated.  Once an entry of the free list was refused for an       *)
(* overlap, every later entry is handed to addfrag all the same, and the   *)
(* free list returns the error.                                            *)
(***************************************************************************)
C13_EveryLaterEntryTried ==
    (Returned /\ FreeErrors # {}) =>
        /\ \A j \in DOMAIN freelist : FreeEntryTried(j)
        /\ ret = WT_ERROR

(***************************************************************************)
(* C13 amended.  Once an entry of the free list was refused for an         *)
(* overlap, the later entries are handed to addfrag all the same, up to    *)
(* the end of the list or to the first entry that ends past the body,      *)
(* where the iteration stops; the verification returns WT_ERROR.           *)
(***************************************************************************)
C13_LaterEntriesTriedUpToPastEnd ==
    (Returned /\ FreeErrors # {}) =>
        LET stop == {j \in DOMAIN freelist : EndsPastBody(freelist[j])}
            last == IF stop = {} THEN Len(freelist)
                    ELSE (CHOOSE j \in stop : \A h \in stop : j <= h) - 1
        IN /\ \A j \in 1 .. last : FreeEntryTried(j)
           /\ Len(FreeCalls) = last
           /\ fl.i = last + 1
           /\ stop # {} =>
                 Diagnosed("free-list entry references non-existent file pages")
           /\ ret = WT_ERROR

\* The first entry overlapped, and two later ones were tried after it: one
\* charged, one refused.
C13_TriedAfterOverlap ==
    /\ Returned
    /\ Len(FreeCalls) = 3
    /\ trace[FreeCalls[1]].ret # OK
    /\ \E j \in 2 .. 3 : trace[FreeCalls[j]].ret = OK
    /\ \E j \in 2 .. 3 : trace[FreeCalls[j]].ret # OK


(***************************************************************************)
(* __verify_overflow on its own: any frag-map of MaxFrags bits, any chunk  *)
(* of one or two allocation units in or past the body, malformed chunks,   *)
(* and failures of the allocation and of the read.                         *)
(***************************************************************************)
OverflowCall ==
    /\ pc = "overflow"
    /\ \E addr \in 0 .. MaxFrags, n \in 1 .. 2,
          fault \in FaultChoice({"ovfl_scr_alloc", "disk_read"}) :
         LET r == __verify_overflow(vs.fragbits, file_size, allocsize,
                                    bad_chunk, addr, n * allocsize, fault) IN
         /\ vs' = [vs EXCEPT !.fragbits = r.bits]
         /\ ret' = r.ret
         /\ trace' = r.ev
    /\ UNCHANGED <<inputs, statvars, pc, stack, fl, cf, cache>>

InitOverflow ==
    /\ allocsize = 512
    /\ file_size = FileOf(512, MaxFrags)
    /\ tree = SizeTree(512)
    /\ freelist = <<>>
    /\ compare = "lexical"
    /\ bad_chunk \in SUBSET {0, MaxFrags - 1}
    /\ fault_env \in {{}, {"ovfl_scr_alloc", "disk_read"}}
    /\ cache = {1}
    /\ \E bits \in SUBSET (0 .. MaxFrags - 1) :
         vs = [frags |-> BigOf(MaxFrags), fragbits |-> bits,
               record_total |-> 0, max_key |-> EmptyKey,
               max_addr |-> WT_ADDR_INVALID, fcnt |-> 0,
               held |-> {"max_key", "fragbits"}]
    /\ ret = OK
    /\ pc = "overflow"
    /\ stack = <<>>
    /\ fl = [i |-> 1, ret |-> OK]
    /\ cf = [ffc_start |-> -1, ffc_end |-> -1, ret |-> OK, entry_bits |-> {}]
    /\ trace = <<>>
    /\ stats = NoStats
    /\ sw = [pc |-> "idle", i |-> 0, ret |-> OK]
    /\ cst = NoCursor

SpecOverflow == InitOverflow /\ [][OverflowCall]_vars

(***************************************************************************)
(* C14.  A call of __verify_overflow changes the frag-map only by an       *)
(* addfrag that follows a read and a check of the chunk that both          *)
(* succeeded; it returns the error of the read, of the check or of         *)
(* addfrag, whichever failed, and then the frag-map is as it was; a        *)
(* malformed chunk is never charged; the buffer is released once, last, if *)
(* it was allocated, and not at all if its allocation failed.              *)
(***************************************************************************)
C14_OverflowChargesLast ==
    [][LET ev == trace'
           Of(op) == {i \in DOMAIN ev : ev[i].op = op}
           allocs == {i \in Of("scr_alloc") : ev[i].ret = OK}
           failed == {i \in Of("disk_read") \cup Of("verify_dsk_chunk")
                                \cup Of("addfrag") : ev[i].ret # OK}
       IN
       /\ Cardinality(Of("scr_alloc")) = 1
       /\ Cardinality(Of("scr_release")) = Cardinality(allocs)
       /\ \A i \in Of("scr_release") : i = Len(ev)
       /\ allocs = {} => ret' = ENOMEM /\ Len(ev) = 1
       /\ \A i \in failed :
             /\ ret' = ev[i].ret
             /\ \A j \in DOMAIN ev :
                   j > i => ev[j].op \in {"errx", "scr_release"}
       /\ ret' # OK => vs'.fragbits = vs.fragbits
       /\ (ret' = OK \/ vs'.fragbits # vs.fragbits) =>
             \E i \in Of("disk_read"), j \in Of("verify_dsk_chunk"),
                k \in Of("addfrag") :
                 /\ i < j /\ j < k
                 /\ ev[i].ret = OK /\ ev[j].ret = OK /\ ev[k].ret = OK
                 /\ ev[k].a \notin bad_chunk
                 /\ FragsOf(Cell(ev[k].a, ev[k].b)) \cap vs.fragbits = {}
                 /\ vs'.fragbits =
                       vs.fragbits \cup FragsOf(Cell(ev[k].a, ev[k].b))
      ]_vars

\* A chunk was read and checked, addfrag refused it, the buffer was
\* released and the frag-map is not full.
C14_OverlapAfterReadReleased ==
    /\ pc = "overflow"
    /\ ret = WT_ERROR
    /\ \E k \in Events("addfrag", "overflow") :
          /\ trace[k].ret = WT_ERROR
          /\ trace[Len(trace)].op = "scr_release"
          /\ trace[k].a + 1 \notin vs.fragbits

\* A malformed chunk was refused.
OverflowChunkRefused ==
    /\ pc = "overflow"
    /\ \E j \in EventsOf("verify_dsk_chunk") :
          trace[j].ret = WT_ERROR /\ trace[j].a \in bad_chunk

(***************************************************************************)
(* C15.  A verification of a tree with an overflow cell that ends past the *)
(* body does not succeed: the cell is never charged, and when its chunk    *)
(* was read the check of the chunk or addfrag returned an error.  A cell   *)
(* that ends with the body passes the check of the chunk unless the chunk  *)
(* is malformed, and addfrag charges it unless a fragment of it is charged *)
(* already.                                                                *)
(***************************************************************************)
OverflowCellsOfTree ==
    UNION {{tree[p].cells[j] : j \in DOMAIN tree[p].cells} : p \in DOMAIN tree}

C15_OverflowPastBodyRefused ==
    /\ (Returned /\ \E c \in OverflowCellsOfTree : EndsPastBody(c))
          => ret # OK
    /\ \A i \in EventsOf("disk_read") :
          LET c == Cell(trace[i].a, trace[i].b) IN
          /\ (trace[i].ret = OK /\ EndsPastBody(c)) =>
                /\ trace[i + 1].op = "verify_dsk_chunk"
                /\ \/ trace[i + 1].ret # OK
                   \/ /\ trace[i + 2].op = "addfrag"
                      /\ trace[i + 2].ret # OK
          /\ (trace[i].ret = OK /\ EndsWithBody(c) /\ c.addr \notin bad_chunk)
                =>
                /\ trace[i + 1].op = "verify_dsk_chunk"
                /\ trace[i + 1].ret = OK
                /\ trace[i + 2].op = "addfrag"
                /\ trace[i + 2].ret = OK <=>
                      FragsOf(c) \cap ChargedBefore(i) = {}
    /\ \A k \in Events("addfrag", "overflow") :
          trace[k].ret = OK => ~EndsPastBody(Cell(trace[k].a, trace[k].b))

\* An overflow cell that points to the last fragment of the file was
\* charged, and the verification succeeded.
C15_LastFragmentCellCharged ==
    /\ Returned
    /\ ret = OK
    /\ \E k \in Events("addfrag", "overflow") :
          /\ trace[k].ret = OK
          /\ EndsWithBody(Cell(trace[k].a, trace[k].b))

\* An overflow cell past the body was refused.
OverflowPastBodyReached ==
    /\ Returned
    /\ \E j \in EventsOf("verify_dsk_chunk") :
          trace[j].ret # OK /\ EndsPastBody(Cell(trace[j].a, trace[j].b))


(***************************************************************************)
(* Descent and eviction: trees of three levels, of both stores and both    *)
(* shapes, with at most one wrong recno or with any fences, where paging a *)
(* child in and evicting it may fail.                                      *)
(***************************************************************************)
EvictFaults == {"page_in", "reconcile"}

EvictInput(t) ==
    Input(FileOf(512, 6), 512, t, <<Cell(5, 512)>>, "lexical", {},
          EvictFaults, {1})

InitEvict ==
    \/ \E d \in RecnoDeltas :
          \/ InitOn(EvictInput(ColTreeA(1, <<NULL, 2>>, 1, d)))
          \/ InitOn(EvictInput(ColTreeB(<<NULL, 2>>, 1, 1, d)))
    \/ \E fa \in Keys, fr \in Keys :
          \/ InitOn(EvictInput(RowTreeA(<<1>>, <<2>>, <<3>>, EmptyKey,
                                        fa, fr)))
          \/ InitOn(EvictInput(RowTreeB(<<1>>, <<2>>, <<3>>, EmptyKey,
                                        fr, fa)))

SpecEvict == InitEvict /\ [][Next]_vars

\* The pages of the subtree of page p.
Subtree(p) == {Dfs(tree, p)[j] : j \in DOMAIN Dfs(tree, p)}

\* The events of the walk of page p or of a page below it.
WalkEvents(p) ==
    {e \in DOMAIN trace :
        \/ trace[e].op = "page_in" /\ trace[e].a \in Subtree(p) \ {p}
        \/ trace[e].op \in {"hazard_clear", "reconcile"}
              /\ trace[e].what = "" /\ trace[e].a \in Subtree(p) \ {p}
        \/ trace[e].op = "addfrag" /\ trace[e].what = "page"
              /\ \E q \in Subtree(p) : tree[q].addr = trace[e].a}

InTreeWalk == pc \in {"start", "tree"}

(***************************************************************************)
(* C16.  A child that was paged in has its hazard cleared and is handed to *)
(* reconcile at most once, in that order and after every event of the walk *)
(* of its subtree, and exactly once when the walk of the tree is over,     *)
(* whether its walk failed or not.  The parent returns the error of the    *)
(* child's walk unchanged whatever the eviction returns, and the error of  *)
(* the eviction when the walk succeeded; an error ends the parent's loop,  *)
(* is handed up level by level to __verify_int, and no child is paged in   *)
(* after a failed step.                                                    *)
(***************************************************************************)
C16_ChildEvictedOnceAfterWalk ==
    /\ [](\A i \in EventsOf("page_in") :
            LET c == trace[i].a
                hz == {j \in EventsOf("hazard_clear") : trace[j].a = c}
                rc == {j \in Events("reconcile", "") : trace[j].a = c}
            IN
            /\ \A j \in 1 .. i - 1 : trace[j].ret = OK
            /\ trace[i].ret # OK => hz = {} /\ rc = {}
            /\ trace[i].ret = OK =>
                  /\ Cardinality(hz) <= 1
                  /\ rc = {j + 1 : j \in hz}
                  /\ \A j \in hz : \A e \in WalkEvents(c) : i < e /\ e < j
                  /\ \A e \in WalkEvents(c) : i < e
                  /\ ~InTreeWalk => Cardinality(hz) = 1)
    /\ [][(pc = "tree" /\ Len(stack') < Len(stack)) =>
            IF Len(stack) = 1 THEN ret' = Top.ret
            ELSE LET child == Top
                     parent == stack[Len(stack) - 1]
                     after == stack'[Len(stack')]
                     rec == trace'[Len(trace')]
                 IN
                 /\ Len(stack') = Len(stack) - 1
                 /\ Len(trace') = Len(trace) + 2
                 /\ trace'[Len(trace) + 1].op = "hazard_clear"
                 /\ rec.op = "reconcile" /\ rec.a = child.page
                 /\ child.ret # OK =>
                       after.st = "ret" /\ after.ret = child.ret
                 /\ (child.ret = OK /\ rec.ret # OK) =>
                       after.st = "ret" /\ after.ret = rec.ret
                 /\ (child.ret = OK /\ rec.ret = OK) =>
                       /\ after.ret = OK
                       /\ after.st = "ret" <=>
                             parent.i = Len(tree[parent.page].refs)
       ]_vars

\* The walk of a child two levels down failed, the eviction of that child
\* failed too, and the verification returned the error of the walk.
C16_WalkErrorSurvivesFailedEviction ==
    /\ Returned
    /\ ret = WT_ERROR
    /\ \E i \in EventsOf("page_in"), e \in EventsOf("errx"),
          j \in Events("reconcile", "") :
          /\ trace[i].ret = OK
          /\ trace[i].b # 1
          /\ i < e /\ e < j
          /\ trace[j].a = trace[i].a
          /\ trace[j].ret # OK
          /\ Cardinality(Events("reconcile", "")) = 2

\* The walk of a child succeeded, its eviction failed, and the verification
\* returned the error of the eviction.
EvictionErrorReturned ==
    /\ Returned
    /\ ret = EIO
    /\ EventsOf("errx") = {}
    /\ \E j \in Events("reconcile", "") : trace[j].ret = EIO
    /\ \A i \in EventsOf("page_in") : trace[i].ret = OK


(***************************************************************************)
(* C17.  A page whose type is none of the known ones makes the walk of the *)
(* verifier return an error, and makes the walk of the statistics return   *)
(* an error.                                                               *)
(***************************************************************************)
KnownTypes ==
    {"WT_PAGE_COL_FIX", "WT_PAGE_COL_INT", "WT_PAGE_COL_VAR", "WT_PAGE_OVFL",
     "WT_PAGE_ROW_INT", "WT_PAGE_ROW_LEAF"}

UnknownPages == {p \in DOMAIN tree : tree[p].type \notin KnownTypes}

\* The pages the verifier has visited, and the pages __stat_page was given.
VerifyVisited ==
    {p \in DOMAIN tree :
        \E e \in Events("addfrag", "page") :
            trace[e].a = tree[p].addr /\ trace[e].ret = OK}

StatVisited ==
    {p \in DOMAIN tree :
        /\ sw.pc # "idle"
        /\ \E j \in DOMAIN __wt_tree_walk(tree, 1) :
              /\ __wt_tree_walk(tree, 1)[j] = p
              /\ j < sw.i \/ sw.pc = "done"}

C17_UnknownKindIsFormatError ==
    /\ (Returned /\ UnknownPages \cap VerifyVisited # {}) => ret # OK
    /\ (sw.pc = "done" /\ UnknownPages \cap StatVisited # {}) => sw.ret # OK

\* The half of it that holds: __stat_page refuses the page and counts
\* nothing for it.
StatUnknownKindRefused ==
    [][(sw.pc = "walk"
        /\ tree[__wt_tree_walk(tree, 1)[sw.i]].type \notin KnownTypes)
       => sw'.pc = "done" /\ sw'.ret = WT_ERROR /\ stats' = stats]_vars

(***************************************************************************)
(* C18.  __stat_page on a col-var page: file_item_total_data grows by the  *)
(* repeat counts of the cells, less the deletions in the insert lists of   *)
(* slots with a cell, plus the other entries in the insert lists of slots  *)
(* without one; file_item_col_deleted grows by the slots without a cell,   *)
(* plus the former, less the latter; the other entries of the insert lists *)
(* count for nothing.                                                      *)
(***************************************************************************)
StatPageNow == tree[__wt_tree_walk(tree, 1)[sw.i]]

InsertsOf(page) ==
    {<<i, j>> \in (1 .. Len(page.slots) + Len(page.keys)) \X (1 .. MaxIns) :
        i \in DOMAIN page.ins /\ j \in DOMAIN page.ins[i]}

LiveSlots(page) == {i \in DOMAIN page.slots : page.slots[i] # NULL}

NullSlots(page) == {i \in DOMAIN page.slots : page.slots[i] = NULL}

Kills(page) ==
    {x \in InsertsOf(page) : x[1] \in LiveSlots(page) /\ page.ins[x[1]][x[2]]}

Revives(page) ==
    {x \in InsertsOf(page) : x[1] \in NullSlots(page) /\ ~page.ins[x[1]][x[2]]}

RleSum(page) ==
    SeqSum([i \in DOMAIN page.slots |->
               IF page.slots[i] = NULL THEN 0 ELSE page.slots[i]])

C18_ColVarCounters ==
    [][(sw.pc = "walk" /\ StatPageNow.type = "WT_PAGE_COL_VAR") =>
          LET page == StatPageNow IN
          /\ stats'.file_item_total_data = stats.file_item_total_data
                + RleSum(page) - Cardinality(Kills(page))
                + Cardinality(Revives(page))
          /\ stats'.file_item_col_deleted = stats.file_item_col_deleted
                + Cardinality(NullSlots(page)) + Cardinality(Kills(page))
                - Cardinality(Revives(page))
          /\ stats'.file_item_total_key = stats.file_item_total_key
          /\ stats'.file_col_variable = stats.file_col_variable + 1
          /\ sw'.ret = OK
      ]_vars

\* A col-var page with every combination was counted: a cell of two
\* records with a deletion and another entry in its insert list, and a slot
\* without a cell with both as well.
C18_AllCombinationsCounted ==
    /\ sw.pc = "done"
    /\ \E p \in DOMAIN tree :
          /\ tree[p].type = "WT_PAGE_COL_VAR"
          /\ p \in StatVisited
          /\ Kills(tree[p]) # {} /\ Revives(tree[p]) # {}
          /\ Cardinality(InsertsOf(tree[p]))
                > Cardinality(Kills(tree[p])) + Cardinality(Revives(tree[p]))
          /\ \E i \in LiveSlots(tree[p]) : tree[p].slots[i] = 2

(***************************************************************************)
(* C19.  __stat_page on a row leaf adds one number to file_item_total_key  *)
(* and to file_item_total_data: the entries of the smallest insert list    *)
(* that are no deletions, plus the slots whose update is absent or no      *)
(* deletion, plus the entries of the slots' insert lists that are no       *)
(* deletions.  In a row store the two counters are equal at every moment.  *)
(***************************************************************************)
LiveSmallest(page) == {j \in DOMAIN page.smallest : ~page.smallest[j]}

CountedSlots(page) ==
    {i \in DOMAIN page.keys :
        \/ i \notin DOMAIN page.upd
        \/ page.upd[i] \in {"none", "live"}}

LiveInserts(page) == {x \in InsertsOf(page) : ~page.ins[x[1]][x[2]]}

IsRowTree == tree[1].type \in {"WT_PAGE_ROW_INT", "WT_PAGE_ROW_LEAF"}

C19_RowLeafLockstep ==
    /\ [][(sw.pc = "walk" /\ StatPageNow.type = "WT_PAGE_ROW_LEAF") =>
            LET page == StatPageNow
                n == Cardinality(LiveSmallest(page))
                       + Cardinality(CountedSlots(page))
                       + Cardinality(LiveInserts(page))
            IN
            /\ stats'.file_item_total_key = stats.file_item_total_key + n
            /\ stats'.file_item_total_data = stats.file_item_total_data + n
            /\ stats'.file_row_leaf = stats.file_row_leaf + 1
            /\ stats'.file_item_col_deleted = stats.file_item_col_deleted
            /\ sw'.ret = OK
         ]_vars
    /\ [](IsRowTree =>
            stats.file_item_total_key = stats.file_item_total_data)

\* Two row leaves were counted, the first with a smallest insert list, an
\* insert list and an update of each kind somewhere, the second with a
\* deleted and a changed slot.
C19_RowLeavesCounted ==
    /\ sw.pc = "done"
    /\ stats.file_row_leaf = 2
    /\ \E p \in DOMAIN tree :
          /\ TRUE \in {tree[p].smallest[j] : j \in DOMAIN tree[p].smallest}
          /\ LiveSmallest(tree[p]) # {}
          /\ LiveInserts(tree[p]) # {}
          /\ Cardinality(InsertsOf(tree[p])) = MaxIns
          /\ CountedSlots(tree[p]) = {}
    /\ \E q \in DOMAIN tree :
          /\ Len(tree[q].upd) = 2
          /\ Cardinality(CountedSlots(tree[q])) = 1
    /\ stats.file_item_total_key = 4


(***************************************************************************)
(* __wt_verify twice: when a verification has returned the handle is       *)
(* opened again on the same file and __wt_verify is called again.  The     *)
(* memory of the second call's WT_VSTUFF is what the first call left on    *)
(* the stack.  No collaborator fails.                                      *)
(***************************************************************************)
VerifyAgain ==
    /\ pc = "done"
    /\ sw.pc # "walk"
    /\ Events("verify", "again") = {}
    /\ pc' = "start"
    /\ cache' = {1}
    /\ trace' = Append(trace, Ev("verify", "again", 0, 0, ret))
    /\ UNCHANGED <<inputs, statvars, vs, ret, stack, fl, cf>>

NextTwice ==
    \/ Next
    \/ VerifyAgain

InitTwice ==
    \/ \E in \in LayoutInputs : InitOn(in)
    \/ \E in \in SizeInputs :
          in.cache = {1} /\ InitOn([in EXCEPT !.fault_env = {}])
    \/ \E l1 \in LeafKeys("lexical"), f1 \in Keys, f2 \in Keys :
          InitOn(RowInput(RowTreeA(l1, <<2>>, <<MaxKey>>, EmptyKey, f1, f2),
                          "lexical"))
    \/ \E l1 \in LeafKeys("reverse"), fa \in Keys :
          InitOn(RowInput(RowTreeB(l1, <<1>>, <<0>>, EmptyKey, fa, 1),
                          "reverse"))

SpecTwice == InitTwice /\ [][NextTwice]_vars

\* Where the second verification starts in the trace: 0 before it.
SecondRun ==
    IF Events("verify", "again") = {} THEN 0
    ELSE CHOOSE j \in Events("verify", "again") : TRUE

(***************************************************************************)
(* C20.  The second verification of a file starts with an empty frag-map,  *)
(* a record total of 0, no largest key and no page count; when it has      *)
(* returned, its result is the result of the first one and it made the     *)
(* calls and the reports the first one made, in their order.               *)
(***************************************************************************)
C20_SecondVerificationSame ==
    /\ [][(pc = "start" /\ SecondRun # 0) =>
            /\ vs'.record_total = 0
            /\ vs'.fcnt = 0
            /\ vs'.max_key = EmptyKey
            /\ vs'.max_addr = WT_ADDR_INVALID
            /\ vs'.fragbits = {}
            /\ vs'.held = IF pc' = "tree" THEN {"max_key", "fragbits"}
                          ELSE {"max_key"}
         ]_vars
    /\ []((Returned /\ SecondRun # 0) =>
            /\ ret = trace[SecondRun].ret
            /\ SubSeq(trace, SecondRun + 1, Len(trace))
                  = SubSeq(trace, 1, SecondRun - 1))

\* Both verifications of a file counted records, charged an overflow page
\* and reported the same error.
C20_SameErrorTwice ==
    /\ Returned
    /\ SecondRun # 0
    /\ ret = WT_ERROR
    /\ vs.record_total > 0
    /\ \E e \in EventsOf("errx"), k \in Events("addfrag", "overflow") :
          e < SecondRun /\ k < e /\ trace[k].ret = OK

\* Both verifications of a row store succeeded.
RowStoreVerifiedTwice ==
    /\ Returned
    /\ SecondRun # 0
    /\ ret = OK
    /\ IsRowTree
    /\ vs.max_key # EmptyKey


(***************************************************************************)
(* Record counts: the column stores of three levels with at most one wrong *)
(* recno, a column store whose col-var leaf has overflow cells, and row    *)
(* stores with any fences.                                                 *)
(***************************************************************************)
InitRecords ==
    \/ InitCol
    \/ \E cells \in OvflCells, a \in 0 .. MaxRecs, b \in 0 .. MaxRecs :
          InitOn(Input(FileOf(512, MaxFrags), 512,
                       (1 :> ColInt(0, 512, 1, <<Ref(2, 1, EmptyKey),
                                                 Ref(3, 2, EmptyKey)>>))
                       @@ (2 :> ColFix(1, 512, 1, 1))
                       @@ (3 :> ColVar(2, 512, 2, <<a, b>>, cells)),
                       <<>>, "lexical", {}, {}, {1}))
    \/ \E fa \in Keys, fr \in Keys :
          InitOn(RowInput(RowTreeA(<<1>>, <<2>>, <<3>>, EmptyKey, fa, fr),
                          "lexical"))

SpecRecords == InitRecords /\ [][Next]_vars

\* The pages whose records the walk has taken: charged to the frag-map,
\* and of the recno that was passed down if they are of a column store.
RecnoChecked ==
    {p \in VerifyVisited :
        tree[p].type \in ColTypes => tree[p].recno = PassedDown(p)}

(***************************************************************************)
(* C22.  From the start of the walk on, record_total is the sum of the     *)
(* records of the leaves visited so far whose recno check passed: the      *)
(* entries of a col-fix leaf, and for a col-var leaf one for a slot        *)
(* without a cell and the repeat count for a cell.  Internal pages, pages  *)
(* of a row store and overflow pages add nothing, and a page whose recno   *)
(* check failed adds nothing.                                              *)
(***************************************************************************)
C22_RecordTotalIsLeafSum ==
    /\ pc # "start" =>
          vs.record_total =
             SeqSum([j \in DOMAIN DfsOrder |->
                        IF DfsOrder[j] \in RecnoChecked
                        THEN LogicalRecords(DfsOrder[j]) ELSE 0])
    /\ (Returned /\ ret = OK) =>
          /\ VerifyVisited = DOMAIN tree
          /\ vs.record_total =
                SeqSum([j \in DOMAIN DfsOrder |-> LogicalRecords(DfsOrder[j])])
    /\ IsRowTree => vs.record_total = 0

\* A column store whose col-var leaf has two slots, none with a cell, was
\* verified: the leaf counted for its two entries.
C22_NullSlotsCountedAsEntries ==
    /\ Returned
    /\ ret = OK
    /\ \E p \in DOMAIN tree, q \in DOMAIN tree :
          /\ tree[p].type = "WT_PAGE_COL_VAR"
          /\ tree[p].slots = <<NULL, NULL>>
          /\ tree[q].type = "WT_PAGE_COL_FIX"
          /\ vs.record_total = 2 + tree[q].entries
          /\ tree[q].entries # 2

\* A leaf with records was charged, its recno check failed, and it was not
\* counted.
LeafOfWrongRecnoNotCounted ==
    /\ Returned
    /\ \E p \in VerifyVisited \ RecnoChecked :
          /\ LogicalRecords(p) > 0
          /\ vs.record_total > 0


(***************************************************************************)
(* The largest key: row stores of three levels with any fences, where the  *)
(* reading of a key, the buffers, paging in and evicting may fail, and a   *)
(* row store whose first subtree is an internal page without entries.      *)
(***************************************************************************)
MonitorFaults ==
    {"key_scr_alloc", "row_key", "row_key_last", "buf_set", "page_in",
     "reconcile"}

\* root -> [internal page without entries, leaf]
LeaflessFirstTree(fr) ==
    (1 :> RowInt(0, 512, <<Ref(2, 0, EmptyKey), Ref(3, 0, fr)>>, <<>>, FALSE))
    @@ (2 :> RowInt(1, 512, <<>>, <<>>, FALSE))
    @@ (3 :> RowLeaf(2, 512, <<2>>, <<>>))

MonitorInput(t) ==
    Input(FileOf(512, 6), 512, t, <<Cell(5, 512)>>, "lexical", {},
          MonitorFaults, {1})

InitMonitor ==
    \E fa \in Keys, fr \in Keys :
        \/ InitOn(MonitorInput(RowTreeA(<<1>>, <<2>>, <<3>>, EmptyKey, fa, fr)))
        \/ InitOn(MonitorInput(RowTreeB(<<1>>, <<2>>, <<3>>, EmptyKey, fr, fa)))
        \/ /\ fa = 0
           /\ InitOn(MonitorInput(LeaflessFirstTree(fr)))

SpecMonitor == InitMonitor /\ [][Next]_vars

\* The first subtree of every internal page of the row store holds a leaf.
FirstSubtreesHaveLeaf ==
    \A p \in DOMAIN tree :
        (tree[p].type = "WT_PAGE_ROW_INT" /\ tree[p].refs # <<>>) =>
            \E q \in Subtree(tree[p].refs[1].page) :
                tree[q].type = "WT_PAGE_ROW_LEAF"

\* The events a step adds to the trace.
NewEvents == (Len(trace) + 1) .. Len(trace')

(***************************************************************************)
(* C23.  In a row store where the first subtree of every internal page     *)
(* holds a leaf, every call of __verify_row_int_key_order is for an entry  *)
(* other than the 0th and finds max_addr set: a leaf has passed            *)
(* __verify_row_leaf_key_order before.                                     *)
(***************************************************************************)
C23_MaxAddrSetAtRowIntCheck ==
    [][FirstSubtreesHaveLeaf =>
          \A e \in NewEvents :
              trace'[e].op = "row_int_key_order" =>
                  /\ vs.max_addr # WT_ADDR_INVALID
                  /\ trace'[e].b >= 1
                  /\ \E j \in DOMAIN trace :
                        /\ trace[j].op = "row_leaf_key_order"
                        /\ trace[j].ret = OK
                        /\ vs.max_addr \in {tree[p].addr : p \in DOMAIN tree}
      ]_vars

\* The keys of entry 1 of the root and of an internal page below it were
\* checked, and the verification succeeded.
C23_RowIntChecksAtTwoLevels ==
    /\ Returned
    /\ ret = OK
    /\ FirstSubtreesHaveLeaf
    /\ \E i \in EventsOf("row_int_key_order"),
          j \in EventsOf("row_int_key_order") :
          trace[i].a = 0 /\ trace[j].a # 0

\* Without a leaf in the first subtree the call is made with max_addr unset.
RowIntCheckedBeforeAnyLeaf ==
    \E i \in EventsOf("row_int_key_order") :
        \A j \in EventsOf("row_leaf_key_order") : i < j


(***************************************************************************)
(* C24.  The pages the walk has paged in and not yet handed to reconcile   *)
(* are the pages below the root on the path to the page the walk is at,    *)
(* and so are the pages whose hazard is set; they are in memory, with the  *)
(* pages whose eviction failed.  A child is handed to reconcile before the *)
(* next child of its parent is paged in.  When __verify_int has returned   *)
(* every page the walk paged in has had its hazard cleared and has been    *)
(* handed to reconcile.                                                    *)
(***************************************************************************)
PagedIn ==
    {trace[i].a : i \in {j \in EventsOf("page_in") : trace[j].ret = OK}}

HazardCleared == {trace[i].a : i \in EventsOf("hazard_clear")}

Reconciled == {trace[i].a : i \in Events("reconcile", "")}

NotEvicted ==
    {trace[i].a : i \in {j \in Events("reconcile", "") : trace[j].ret # OK}}

PathBelowRoot == {stack[i].page : i \in 2 .. Len(stack)}

C24_HeldPagesAreThePath ==
    /\ PagedIn \ Reconciled = PathBelowRoot
    /\ PagedIn \ HazardCleared = PathBelowRoot
    /\ cache \ {1} = PathBelowRoot \cup NotEvicted
    /\ Cardinality(PathBelowRoot) = IF stack = <<>> THEN 0 ELSE Len(stack) - 1
    /\ \A i \in 2 .. Len(stack) :
          /\ stack[1].page = 1
          /\ \E k \in DOMAIN tree[stack[i - 1].page].refs :
                tree[stack[i - 1].page].refs[k].page = stack[i].page
    /\ \A i \in EventsOf("page_in"), j \in EventsOf("page_in") :
          (i < j /\ trace[i].b = trace[j].b /\ trace[i].ret = OK) =>
              \E k \in Events("reconcile", "") :
                  i < k /\ k < j /\ trace[k].a = trace[i].a
    /\ Returned =>
          /\ stack = <<>>
          /\ PagedIn \subseteq HazardCleared \cap Reconciled
          /\ cache \subseteq {1} \cup NotEvicted

\* The walk is two levels below the root, after a page of that level has
\* been evicted.
C24_DeepInTheWalkAfterEviction ==
    /\ pc = "tree"
    /\ Len(stack) = 3
    /\ Reconciled # {}
    /\ Cardinality(cache) = 3

\* The verification failed two levels below the root and returned with no
\* page held.
FailedDeepAndReleased ==
    /\ Returned
    /\ ret = WT_ERROR
    /\ Cardinality(PagedIn) = 2
    /\ PagedIn = Reconciled
    /\ cache = {}


(***************************************************************************)
(* The statistics cursor on a handle whose counters are zero: a column     *)
(* store, a row store and a store with a page of no known type, where the  *)
(* walk, the setting of the key or the setting of the value may fail.      *)
(***************************************************************************)
InitCursor ==
    \E env \in {{}} \cup {{f} : f \in CursorFaults} :
        \/ InitOn([StatInput(StatColTree(<<NULL, 2>>,
                                         <<<<FALSE>>, <<TRUE>>>>, 1))
                     EXCEPT !.fault_env = env])
        \/ InitOn([StatInput(StatRowTree(<<FALSE>>, <<"deleted">>, <<TRUE>>,
                                         <<>>))
                     EXCEPT !.fault_env = env])
        \/ /\ env = {}
           /\ InitOn(StatInput(StatOddTree("WT_PAGE_INVALID", 1)))

NextCursor ==
    \/ StatFirst
    \/ StatNext

SpecCursor == InitCursor /\ [][NextCursor]_vars


(***************************************************************************)
(* C25.  Since the last __wt_btree_stat_first the walk has succeeded at    *)
(* most once; the descriptions returned so far are the first entries of    *)
(* the table, in its order; when WT_NOTFOUND has been returned they are    *)
(* the whole table; a call on a cursor that has returned WT_NOTFOUND       *)
(* returns WT_NOTFOUND and changes nothing else, unless it is              *)
(* __wt_btree_stat_first.                                                  *)
(***************************************************************************)
IsPrefix(q, t) == Len(q) <= Len(t) /\ \A j \in DOMAIN q : q[j] = t[j]

CursorCalledNext == cst'.calls = cst.calls + 1 /\ cst'.firsts = cst.firsts

CursorWalksAtMostOnce == cst.inits <= 1

CursorStaysAtEnd ==
    (cst.notfound /\ CursorCalledNext) =>
        /\ cst' = [cst EXCEPT !.calls = @ + 1, !.ret = WT_NOTFOUND]
        /\ stats' = stats

C25_CursorReturnsEachEntryOnce ==
    /\ [](CursorWalksAtMostOnce)
    /\ [](IsPrefix(cst.out, StatTable))
    /\ [](cst.notfound => cst.out = StatTable)
    /\ [][CursorStaysAtEnd]_vars

\* What holds of the cursor: at most one walk, the end is final, the
\* descriptions come in the order of the table and none twice, and all of
\* them when no call fails.
CursorOrderAndEnd ==
    /\ [](CursorWalksAtMostOnce)
    /\ [][CursorStaysAtEnd]_vars
    /\ [](\A i \in DOMAIN cst.out, j \in DOMAIN cst.out :
             i < j => \E a \in DOMAIN StatTable, b \in DOMAIN StatTable :
                         /\ a < b
                         /\ StatTable[a] = cst.out[i]
                         /\ StatTable[b] = cst.out[j])
    /\ [](fault_env = {} =>
             /\ IsPrefix(cst.out, StatTable)
             /\ cst.notfound => cst.out = StatTable)

\* The cursor has come to the end of the table and has been called again.
CursorCalledAtEnd ==
    /\ cst.notfound
    /\ cst.ret = WT_NOTFOUND
    /\ cst.stats = Len(StatTable) + 2
    /\ cst.calls = Len(StatTable) + 2

(***************************************************************************)
(* C26.  When no call fails, every walk of the statistics leaves the       *)
(* counters as one traversal of the tree sets them: the counters after a   *)
(* second walk are those after the first.                                  *)
(***************************************************************************)
C26_SecondWalkSameCounters ==
    fault_env = {} =>
        \A i \in DOMAIN cst.walked :
            /\ cst.walked[i] = cst.walked[1]
            /\ cst.walked[i] =
                  __stat_init(NoStats, tree, allocsize, freelist, "none").stats

\* The first walk on a handle does count one traversal.
FirstWalkCountsOneTraversal ==
    (fault_env = {} /\ cst.walked # <<>>) =>
        cst.walked[1] =
            __stat_init(NoStats, tree, allocsize, freelist, "none").stats

(***************************************************************************)
(* C27.  __stat_page on a col-var page: file_item_total_data and           *)
(* file_item_col_deleted grow together by one for every slot without a     *)
(* cell and the repeat count for every cell, whatever the insert lists     *)
(* hold, which is what __verify_tree adds to record_total for the page.    *)
(***************************************************************************)
C27_ColVarSumIsRecords ==
    [][(sw.pc = "walk" /\ StatPageNow.type = "WT_PAGE_COL_VAR") =>
          LET page == StatPageNow
              grown == (stats'.file_item_total_data
                           - stats.file_item_total_data)
                       + (stats'.file_item_col_deleted
                             - stats.file_item_col_deleted)
          IN
          /\ grown = RleSum(page) + Cardinality(NullSlots(page))
          /\ grown = PageRecords(page)
      ]_vars

\* Both walks went over a col-var page with two slots, one with a cell of
\* two records, whose insert lists moved counts both ways, and the two
\* counters add up to the verifier's records.
C27_InsertsMovedCountsBothWays ==
    /\ Verified
    /\ StatWalked
    /\ \E p \in DOMAIN tree :
          /\ tree[p].type = "WT_PAGE_COL_VAR"
          /\ Len(tree[p].slots) = 2
          /\ RleSum(tree[p]) = 2
          /\ Cardinality(Kills(tree[p])) = 2
          /\ Revives(tree[p]) # {}
    /\ stats.file_item_total_data + stats.file_item_col_deleted
          = vs.record_total

=============================================================================
